---- MODULE Spec2Model ----
(***************************************************************************)
(* Lease-based service registry (pkg/discovery) and the order service's    *)
(* start-up / shut-down sequence (cmd/order/main.go).                      *)
(*                                                                         *)
(* The registry client wraps an etcd client.  The store is modelled by     *)
(* what the client calls do to it: Grant creates a lease, Put binds a key  *)
(* to a lease (replacing an earlier binding), KeepAlive renews a lease     *)
(* while its context and the client live, Delete removes one key, and a    *)
(* lease that is not renewed for TTL seconds expires with every key bound  *)
(* to it.                                                                  *)
(***************************************************************************)
EXTENDS Integers, Sequences, FiniteSets, TLC

(***************************************************************************)
(* Program constants and model bounds.                                     *)
(***************************************************************************)
\* discovery.go:43  sd.client.Grant(ctx, 30)
TTL == 30
\* Seconds that pass in one Tick step.
TickSeconds == 15
\* Number of leases the store grants in one behaviour.
MaxLeases == 2

\* sd.config.Prefix, the operator-configured namespace.
Prefix == "/microshop/services/"

\* The order service's own instance (cfg.Server.Name/Host/Port).
OrderInstance == [Name |-> "order-service", Host |-> "10.0.0.5", Port |-> 50052]

\* ServiceInstance values handed to the registry client.
Instances ==
    { OrderInstance,
      [Name |-> "order-service", Host |-> "10.0.0.6", Port |-> 50052],
      [Name |-> "order", Host |-> "10.0.0.5", Port |-> 50052] }

\* Service names handed to Discover.
ServiceNames == {"order-service", "order"}

\* context.Background() and one cancellable context.
Background == "background"
Contexts == {Background, "request"}

\* Goroutines whose Register calls race on one registry client.
Callers == {"g1", "g2"}

(***************************************************************************)
(* fmt.Sprintf("%d", n) and the string helpers.                            *)
(***************************************************************************)
Digit(d) == SubSeq("0123456789", d + 1, d + 1)

RECURSIVE Itoa(_)
Itoa(n) ==
    IF n < 0 THEN "-" \o Itoa(-n)
    ELSE IF n < 10 THEN Digit(n)
    ELSE Itoa(n \div 10) \o Digit(n % 10)

\* The bytes the keys of this model are made of, in byte order.
Ascii == "-./0123456789:abcdefghijklmnopqrstuvwxyz"
Ord(ch) == CHOOSE i \in 1..Len(Ascii) : SubSeq(Ascii, i, i) = ch

HasPrefix(s, p) == Len(s) >= Len(p) /\ SubSeq(s, 1, Len(p)) = p

\* Byte-wise lexicographic order, the order of etcd's keys: decided by the
\* first byte that differs, or by length when one is a prefix of the other.
StrLess(a, b) ==
    LET n == IF Len(a) < Len(b) THEN Len(a) ELSE Len(b)
        diff == {i \in 1..n : SubSeq(a, i, i) # SubSeq(b, i, i)}
    IN  IF diff = {} THEN Len(a) < Len(b)
        ELSE LET i == CHOOSE k \in diff : \A m \in diff : k <= m
             IN  Ord(SubSeq(a, i, i)) < Ord(SubSeq(b, i, i))

\* discovery.go:39 and :91  "%s%s/%s:%d"
InstanceKey(instance) ==
    Prefix \o instance.Name \o "/" \o instance.Host \o ":" \o Itoa(instance.Port)

\* A value that leaves the port out.
InstanceValueHostOnly(instance) == instance.Host

\* discovery.go:40  "%s:%d"
InstanceValue(instance) == instance.Host \o ":" \o Itoa(instance.Port)

\* A query key without the closing "/".
DiscoverKeyNoSlash(serviceName) == Prefix \o serviceName

\* discovery.go:70  "%s%s/"
DiscoverKey(serviceName) == Prefix \o serviceName \o "/"

(***************************************************************************)
(* State.                                                                  *)
(***************************************************************************)
VARIABLES
    store,        \* etcd key space: records [key, value, lease]
    leases,       \* granted lease id -> seconds since grant or last renewal
    keepAlives,   \* open keep-alive channels: records [id, ctx]
    tasks,        \* leases whose draining goroutine (discovery.go:60) runs
    cancelled,    \* contexts that have been cancelled
    client,       \* sd.client: "none", "open" or "closed"
    proc,         \* the owning process: "running", "exited" or "crashed"
    calls,        \* goroutine -> the Register call it is in, or has returned from
    mainPc,       \* position of cmd/order main
    server,       \* the order RPC server: "off", "starting", "listening", "failed", "stopped"
    leaseInst,    \* history: lease id -> the instance Register granted it for
    bound,        \* history: key -> lease of the last Put with no Delete since
    hist,         \* history of main: what it has done so far
    conns,        \* ClientManager.userConn / orderConn: NoConn or [target, open]
    clients,      \* ClientManager.userClient / orderClient: Nil or the target
    connectRet,   \* the ClientManager.Connect call: its position, what
                  \* Discover returned, the targets dialed, the error returned
    closeRet,     \* the ClientManager.Close call: its position, the
                  \* connections it closed, the failures, the error returned
    gwPc,         \* position of the gateway's main
    gwServer,     \* the gateway's HTTP server: "off", "starting", "serving", "failed"
    gwHist,       \* history of the gateway: Connect calls, handler runs
    spawned,      \* names of the actors the Actor System has spawned
    mailbox,      \* actor -> [sys, user]: queued signals and queued requests
    running,      \* actor -> the envelopes whose Receive is in progress
    startedCount, \* actor -> how often Receive was handed Started
    orders,       \* OrderClusterActor.orders: [made, m], m: OrderID -> OrderInfo
    futures,      \* request id -> the future RequestFuture returned
    responds,     \* history: request id -> the responses Receive passed to Respond
    processed,    \* history: actor -> request ids in the order Receive took them
    discarded,    \* history: request ids whose reply came after the timeout
    clock,        \* the reading of time.Now().UnixNano()
    life,         \* actor -> "none", "starting", "running", "stopping", "stopped"
    signals,      \* history: actor -> the lifecycle signals Receive was handed
    deadLetters,  \* request ids the Actor System routed to dead letters
    spawnErr,     \* the error the last SpawnNamed returned
    userDb,       \* the users table: id -> the row's name, or NoRow
    userCache,    \* Redis: id -> the cached name, or NoEntry
    getCalls,     \* GetUser call -> its position, what it read and returned
    writeCall,    \* the UpdateUser / DeleteUser call in progress
    createCall,   \* the CreateUser call: its position and the user it creates
    writesBegun,  \* history: UpdateUser and DeleteUser calls begun so far
    redisFailed   \* history: a Redis command of the user service has failed

gatewayVars == <<conns, clients, connectRet, closeRet, gwPc, gwServer, gwHist>>
lifeVars == <<life, signals, deadLetters, spawnErr>>
actorVars == <<spawned, mailbox, running, startedCount, orders, futures,
               responds, processed, discarded, clock, lifeVars>>
userVars == <<userDb, userCache, getCalls, writeCall, createCall, writesBegun,
              redisFailed>>
otherVars == <<actorVars, userVars>>
componentVars == <<gatewayVars, actorVars, userVars>>
vars == <<store, leases, keepAlives, tasks, cancelled, client, proc,
          calls, mainPc, server, leaseInst, bound, hist, componentVars>>
mainVars == <<mainPc, server, hist>>

Nil == "nil"
IdleCall == [pc |-> "idle", inst |-> OrderInstance, ctx |-> Background,
             lease |-> 0, err |-> Nil]

Min(a, b) == IF a < b THEN a ELSE b
Range(f) == {f[i] : i \in DOMAIN f}

(***************************************************************************)
(* The etcd client, as far as the registry client uses it.                 *)
(***************************************************************************)
\* A lease exists until TTL seconds pass without a renewal.
LeaseLive(id) == id \in DOMAIN leases /\ leases[id] < TTL

\* A request reaches the store: the store answers, the client is open and
\* the call's context is not cancelled.
Reaches(ctx, avail) == avail /\ client = "open" /\ ctx \notin cancelled

\* clientv3 Grant: a fresh lease id.
EtcdGrant == Cardinality(DOMAIN leases) + 1

\* A Put that leaves an existing record of the key in place.
EtcdPutIfAbsent(kvs, key, value, id) ==
    IF \E r \in kvs : r.key = key
    THEN kvs
    ELSE kvs \cup {[key |-> key, value |-> value, lease |-> id]}

\* clientv3 Put with WithLease: the key's record is replaced, so the key is
\* attached to the new lease only.
EtcdPut(kvs, key, value, id) ==
    {r \in kvs : r.key # key} \cup {[key |-> key, value |-> value, lease |-> id]}

\* A Delete that takes every record of the key's service with it.
EtcdDeleteService(kvs, key) ==
    {r \in kvs : SubSeq(r.key, 1, Len(Prefix) + 5) # SubSeq(key, 1, Len(Prefix) + 5)}

\* clientv3 Delete of one key.
EtcdDelete(kvs, key) == {r \in kvs : r.key # key}

\* Sequence of the records of a set, by ascending key.
RECURSIVE SortByKey(_)
SortByKey(kvs) ==
    IF kvs = {} THEN <<>>
    ELSE LET first == CHOOSE r \in kvs :
                          \A q \in kvs : q.key = r.key \/ StrLess(r.key, q.key)
         IN  <<first>> \o SortByKey(kvs \ {first})

\* clientv3 Get with WithPrefix: resp.Kvs.
EtcdGetPrefix(kvs, prefix) == SortByKey({r \in kvs : HasPrefix(r.key, prefix)})

\* clientv3 KeepAlive: the channel is registered with the keep-alive loop; a
\* context that is already cancelled closes it at once.
EtcdKeepAlive(kas, id, ctx) ==
    IF ctx \in cancelled
    THEN kas
    ELSE kas \cup {[id |-> id, ctx |-> ctx]}

\* Lease expiry in the store: the ages after d more seconds.
Aged(d) == [id \in DOMAIN leases |-> Min(leases[id] + d, TTL)]

\* The keys of expired leases are deleted with them.
Expire(kvs, ages) == {r \in kvs : ages[r.lease] < TTL}

\* History: key is now bound to lease id / is no longer bound.
Bind(key, id) == [k \in DOMAIN bound \cup {key} |-> IF k = key THEN id ELSE bound[k]]
Unbind(key) == [k \in DOMAIN bound \ {key} |-> bound[k]]

(***************************************************************************)
(* ServiceDiscovery.Discover, discovery.go:69-88.                          *)
(***************************************************************************)
\* Lines 77-85: one ServiceInstance per returned record, Host = the value.
DiscoverInstances(kvs, serviceName) ==
    LET resp == EtcdGetPrefix(kvs, DiscoverKey(serviceName))
    IN  [i \in 1..Len(resp) |->
            [Name |-> serviceName, Host |-> resp[i].value, Port |-> 0]]

\* A Discover that reports an empty result as an error.
DiscoverReturnNotFound(kvs, serviceName, getFailed) ==
    IF getFailed \/ {r \in kvs : HasPrefix(r.key, DiscoverKey(serviceName))} = {}
    THEN [err |-> "failed to discover service", instances |-> <<>>]
    ELSE [err |-> Nil, instances |-> DiscoverInstances(kvs, serviceName)]

\* Lines 72-75 and 87: (nil, error) when the query failed, else the list.
DiscoverReturn(kvs, serviceName, getFailed) ==
    IF getFailed
    THEN [err |-> "failed to discover service", instances |-> <<>>]
    ELSE [err |-> Nil, instances |-> DiscoverInstances(kvs, serviceName)]

\* The call reads the store and changes nothing; what it hands back is
\* DiscoverReturn of the store it read.
Discover(serviceName, ctx, avail) ==
    /\ proc = "running"
    /\ client # "none"
    /\ DiscoverReturn(store, serviceName, ~Reaches(ctx, avail)).err
           \in {Nil, "failed to discover service"}
    /\ UNCHANGED <<store, leases, keepAlives, tasks, cancelled, client, proc,
                   calls, leaseInst, bound>>

(***************************************************************************)
(* ServiceDiscovery.Register, discovery.go:38-67.                          *)
(***************************************************************************)
\* The error Register returns: lines 44-46, 50-52, 56-58, 66.  KeepAlive
\* fails only on a halted (closed) client.
RegisterError(grantFailed, putFailed, keepAliveFailed) ==
    IF grantFailed THEN "failed to create lease"
    ELSE IF putFailed THEN "failed to register service"
    ELSE IF keepAliveFailed THEN "failed to keep alive"
    ELSE Nil

\* The call makes its three store requests one at a time and holds no lock:
\* other goroutines, context cancellation and the lease clock run between
\* them.  calls[c] is the call's position and what it holds.
\* A call that has returned: its error, and for a call that returned nil the
\* instance it registered and the lease it got.
Returned(c, instance, id, e) ==
    [calls EXCEPT ![c] =
        IF e = Nil
        THEN [IdleCall EXCEPT !.inst = instance, !.lease = id]
        ELSE [IdleCall EXCEPT !.err = e]]

\* Lines 43-46: Grant.
RegisterGrant(c, instance, ctx, avail) ==
    /\ proc = "running"
    /\ client # "none"
    /\ calls[c].pc = "idle"
    /\ Cardinality(DOMAIN leases) < MaxLeases
    /\ IF Reaches(ctx, avail)
       THEN /\ leases' = leases @@ (EtcdGrant :> 0)
            /\ leaseInst' = leaseInst @@ (EtcdGrant :> instance)
            /\ calls' = [calls EXCEPT ![c] =
                   [pc |-> "put", inst |-> instance, ctx |-> ctx,
                    lease |-> EtcdGrant, err |-> Nil]]
       ELSE /\ calls' = Returned(c, instance, 0, RegisterError(TRUE, FALSE, FALSE))
            /\ UNCHANGED <<leases, leaseInst>>
    /\ UNCHANGED <<store, keepAlives, tasks, cancelled, client, proc, bound>>

\* Lines 49-52: Put of the record, bound to the call's lease.  The store
\* refuses a Put under a lease that has expired since the Grant.
RegisterPut(c, avail) ==
    /\ proc = "running"
    /\ calls[c].pc = "put"
    /\ LET call == calls[c]
           key == InstanceKey(call.inst)
       IN  IF Reaches(call.ctx, avail) /\ LeaseLive(call.lease)
           THEN /\ store' = EtcdPut(store, key, InstanceValue(call.inst), call.lease)
                /\ bound' = Bind(key, call.lease)
                /\ calls' = [calls EXCEPT ![c].pc = "keepalive"]
           ELSE /\ calls' = Returned(c, call.inst, call.lease,
                                         RegisterError(FALSE, TRUE, FALSE))
                /\ UNCHANGED <<store, bound>>
    /\ UNCHANGED <<leases, keepAlives, tasks, cancelled, client, proc, leaseInst>>

\* Lines 55-66: KeepAlive, the goroutine that drains the channel, return nil.
\* The channel of a lease that has expired is closed on the first answer.
RegisterKeepAlive(c) ==
    /\ proc = "running"
    /\ calls[c].pc = "keepalive"
    /\ LET call == calls[c]
           err == RegisterError(FALSE, FALSE, client # "open")
       IN  /\ keepAlives' = IF err = Nil /\ LeaseLive(call.lease)
                            THEN EtcdKeepAlive(keepAlives, call.lease, call.ctx)
                            ELSE keepAlives
           /\ tasks' = IF err = Nil THEN tasks \cup {call.lease} ELSE tasks
           /\ calls' = Returned(c, call.inst, call.lease, err)
    /\ UNCHANGED <<store, leases, cancelled, client, proc, leaseInst, bound>>

\* Lines 60-64: the goroutine leaves its range loop once the channel is closed.
TaskExit(id) ==
    /\ proc = "running"
    /\ id \in tasks
    /\ id \notin {ka.id : ka \in keepAlives}
    /\ tasks' = tasks \ {id}
    /\ UNCHANGED <<store, leases, keepAlives, cancelled, client, proc, calls,
                   leaseInst, bound>>

(***************************************************************************)
(* ServiceDiscovery.Deregister, discovery.go:90-97.                        *)
(***************************************************************************)
Deregister(instance, ctx, avail) ==
    /\ proc = "running"
    /\ client # "none"
    /\ LET key == InstanceKey(instance)
       IN  IF Reaches(ctx, avail)
           THEN /\ store' = EtcdDelete(store, key)
                /\ bound' = Unbind(key)
                       ELSE UNCHANGED <<store, bound>>
    /\ UNCHANGED <<leases, keepAlives, tasks, cancelled, client, proc, calls,
                   leaseInst>>

(***************************************************************************)
(* ServiceDiscovery.Close, discovery.go:99-101: the etcd client stops its  *)
(* keep-alive loop and closes every keep-alive channel.                    *)
(***************************************************************************)
\* A Close that deletes the client's records.
CloseStoreRevoking(kvs) == {r \in kvs : r.lease \notin DOMAIN leaseInst}

\* Close sends no Revoke and no Delete: the records stay until their leases
\* expire.
CloseStore(kvs) == kvs

Close ==
    /\ proc = "running"
    /\ client = "open"
    /\ client' = "closed"
    /\ keepAlives' = {}
    /\ store' = CloseStore(store)
    /\ UNCHANGED <<leases, tasks, cancelled, proc, calls, leaseInst, bound>>

(***************************************************************************)
(* Environment: contexts, the lease clock, the process.                    *)
(***************************************************************************)
\* The caller cancels a context; keep-alives started under it stop.
CancelCtx(ctx) ==
    /\ proc = "running"
    /\ ctx # Background
    /\ ctx \notin cancelled
    /\ cancelled' = cancelled \cup {ctx}
    /\ keepAlives' = {ka \in keepAlives : ka.ctx # ctx}
    /\ UNCHANGED <<store, leases, tasks, client, proc, calls, leaseInst, bound>>

\* The keep-alive loop renews a lease; the store restarts its TTL.
Renew(id) ==
    /\ proc = "running"
    /\ id \in {ka.id : ka \in keepAlives}
    /\ LeaseLive(id)
    /\ leases[id] > 0
    /\ leases' = [leases EXCEPT ![id] = 0]
    /\ UNCHANGED <<store, keepAlives, tasks, cancelled, client, proc, calls,
                   leaseInst, bound>>

\* TickSeconds pass.  The keep-alive loop renews every lease it holds before
\* that lease's TTL window ends.
Tick ==
    /\ \E id \in DOMAIN leases : LeaseLive(id)
    /\ \A ka \in keepAlives : leases[ka.id] + TickSeconds < TTL
    /\ leases' = Aged(TickSeconds)
    /\ store' = Expire(store, leases')
    /\ keepAlives' = {ka \in keepAlives : leases'[ka.id] < TTL}
    /\ UNCHANGED <<tasks, cancelled, client, proc, calls, leaseInst, bound>>

\* The process ends: every goroutine and keep-alive stream dies with it.
ProcessEnds(how) ==
    /\ proc' = how
    /\ keepAlives' = {}
    /\ tasks' = {}
    /\ calls' = [c \in Callers |-> IdleCall]
    /\ UNCHANGED <<store, leases, cancelled, client, leaseInst, bound>>

Crash ==
    /\ proc = "running"
    /\ ProcessEnds("crashed")

(***************************************************************************)
(* The registry client used as a library by one goroutine: calls follow    *)
(* one another while contexts are cancelled and time passes.               *)
(***************************************************************************)
NoHistory == [registered |-> FALSE, sdFailed |-> FALSE, regFailed |-> FALSE,
              serverStarted |-> FALSE, deregIssued |-> FALSE, closed |-> FALSE]

\* No ClientManager has connected anything and no gateway runs.
NoConn == [target |-> "nil", open |-> FALSE]
NoReturn == [pc |-> "idle", err |-> "nil", did |-> <<>>, found |-> <<>>, failed |-> <<>>]
NoGatewayHistory == [connected |-> FALSE, connectFailed |-> FALSE,
                     handlerRan |-> FALSE, nilClientUsed |-> FALSE]

GatewayIdle ==
    /\ conns = [user |-> NoConn, order |-> NoConn]
    /\ clients = [user |-> "nil", order |-> "nil"]
    /\ connectRet = NoReturn
    /\ closeRet = NoReturn
    /\ gwPc = "none"
    /\ gwServer = "off"
    /\ gwHist = NoGatewayHistory

\* The three actor behaviours of cmd/order/main.go.
Actors == {"order-actor", "notification-actor", "order-cluster-actor"}

\* OrderClusterActor.orders before make: a nil map.
NilMap == [made |-> FALSE, m |-> <<>>]

\* No Actor System has been created.
ActorsIdle ==
    /\ spawned = {}
    /\ mailbox = [a \in Actors |-> [sys |-> <<>>, user |-> <<>>]]
    /\ running = [a \in Actors |-> {}]
    /\ startedCount = [a \in Actors |-> 0]
    /\ orders = NilMap
    /\ futures = <<>>
    /\ responds = <<>>
    /\ processed = [a \in Actors |-> <<>>]
    /\ discarded = {}
    /\ clock = 1
    /\ life = [a \in Actors |-> "none"]
    /\ signals = [a \in Actors |-> <<>>]
    /\ deadLetters = {}
    /\ spawnErr = "nil"

\* The user service: one user, created by CreateUser, which also caches
\* it (user_server.go:75-97).
UserIds == {"u1"}
Names == {"alice", "bob"}
NoRow == "no row"
NoEntry == "redis: nil"
Getters == {"r1", "r2"}
IdleGet == [pc |-> "idle", id |-> "u1", row |-> NoRow, ret |-> "none",
            since |-> 0, quiet |-> FALSE]
IdleWrite == [pc |-> "idle", kind |-> "none", id |-> "u1", name |-> "", found |-> FALSE]
IdleCreate == [pc |-> "idle", id |-> "u1", name |-> ""]
\* The user service before any user was created.
UsersIdle ==
    /\ userDb = [id \in UserIds |-> NoRow]
    /\ userCache = [id \in UserIds |-> NoEntry]
    /\ getCalls = [g \in Getters |-> IdleGet]
    /\ writeCall = IdleWrite
    /\ createCall = IdleCreate
    /\ writesBegun = 0
    /\ redisFailed = FALSE

ComponentsIdle == GatewayIdle /\ ActorsIdle /\ UsersIdle

InitStore ==
    /\ ComponentsIdle
    /\ store = {}
    /\ leases = <<>>
    /\ keepAlives = {}
    /\ tasks = {}
    /\ cancelled = {}
    /\ calls = [c \in Callers |-> IdleCall]
    /\ proc = "running"
    /\ leaseInst = <<>>
    /\ bound = <<>>
    /\ server = "off"
    /\ hist = NoHistory

InitRegistry ==
    /\ InitStore
    /\ client = "open"
    /\ mainPc = "library"

\* The goroutine that uses the client as a library.
LibCaller == "g1"

LibRegisterGrant ==
    \E instance \in Instances, ctx \in Contexts, avail \in BOOLEAN :
        RegisterGrant(LibCaller, instance, ctx, avail) /\ UNCHANGED <<mainVars, componentVars>>

LibRegisterPut ==
    \E avail \in BOOLEAN :
        RegisterPut(LibCaller, avail) /\ UNCHANGED <<mainVars, componentVars>>

LibRegisterKeepAlive ==
    RegisterKeepAlive(LibCaller) /\ UNCHANGED <<mainVars, componentVars>>

LibDeregister ==
    \E instance \in Instances, ctx \in Contexts, avail \in BOOLEAN :
        Deregister(instance, ctx, avail) /\ UNCHANGED <<mainVars, componentVars>>

LibDiscover ==
    \E serviceName \in ServiceNames, ctx \in Contexts, avail \in BOOLEAN :
        Discover(serviceName, ctx, avail) /\ UNCHANGED <<mainVars, componentVars>>

LibClose == Close /\ UNCHANGED <<mainVars, componentVars>>

LibCancelCtx == \E ctx \in Contexts : CancelCtx(ctx) /\ UNCHANGED <<mainVars, componentVars>>

KeepAliveRenew == \E id \in DOMAIN leases : Renew(id) /\ UNCHANGED <<mainVars, componentVars>>

GoroutineExit == \E id \in tasks : TaskExit(id) /\ UNCHANGED <<mainVars, componentVars>>

ClockTick == Tick /\ UNCHANGED <<mainVars, componentVars>>

LibCrash == Crash /\ UNCHANGED <<mainVars, componentVars>>

NextRegistry ==
    \/ LibRegisterGrant
    \/ LibRegisterPut
    \/ LibRegisterKeepAlive
    \/ LibDeregister
    \/ LibDiscover
    \/ LibClose
    \/ LibCancelCtx
    \/ KeepAliveRenew
    \/ GoroutineExit
    \/ ClockTick
    \/ LibCrash

SpecRegistry == InitRegistry /\ [][NextRegistry]_vars

(***************************************************************************)
(* Register calls of several goroutines racing on one registry client.     *)
(* The store answers every request that reaches it, and the race is over   *)
(* within one tick, so no lease ages meanwhile.                            *)
(***************************************************************************)
RaceRegisterGrant ==
    \E c \in Callers, instance \in Instances, ctx \in Contexts :
        RegisterGrant(c, instance, ctx, TRUE) /\ UNCHANGED <<mainVars, componentVars>>

RaceRegisterPut ==
    \E c \in Callers : RegisterPut(c, TRUE) /\ UNCHANGED <<mainVars, componentVars>>

RaceRegisterKeepAlive ==
    \E c \in Callers : RegisterKeepAlive(c) /\ UNCHANGED <<mainVars, componentVars>>

NextRace ==
    \/ RaceRegisterGrant
    \/ RaceRegisterPut
    \/ RaceRegisterKeepAlive
    \/ LibDeregister
    \/ LibClose
    \/ LibCancelCtx
    \/ GoroutineExit

SpecRace == InitRegistry /\ [][NextRace]_vars

(***************************************************************************)
(* cmd/order main, main.go:16-99.                                          *)
(***************************************************************************)
\* logger.Fatal logs and calls os.Exit(1); deferred calls do not run.
StoppedServer == IF server = "off" THEN "off" ELSE "stopped"

\* Lines 18-39: config, logger and the order server; an error ends the run.
MainNewOrderServer(ok) ==
    /\ proc = "running"
    /\ mainPc = "newServer"
    /\ mainPc' = IF ok THEN "etcd" ELSE "fatal"
    /\ UNCHANGED <<store, leases, keepAlives, tasks, cancelled, client, proc,
                   calls, server, leaseInst, bound, hist>>

\* Lines 42-46: discovery.NewServiceDiscovery (discovery.go:23-36).
MainNewServiceDiscovery(ok) ==
    /\ proc = "running"
    /\ mainPc = "etcd"
    /\ client' = IF ok THEN "open" ELSE "none"
    /\ mainPc' = IF ok THEN "register" ELSE "fatal"
    /\ hist' = [hist EXCEPT !.sdFailed = ~ok]
    /\ UNCHANGED <<store, leases, keepAlives, tasks, cancelled, proc,
                   calls, server, leaseInst, bound>>

\* A main that only logs a Register error.
AfterRegisterIgnoringError(err) == "ping"

\* Lines 55-57: a Register error is fatal.
AfterRegister(err) == IF err = Nil THEN "ping" ELSE "fatal"

\* The goroutine of main.
MainCaller == "g1"

\* Lines 49-57: main is inside Register until the call returns, then goes on
\* by the error it got.
MainInRegister ==
    LET call == calls'[MainCaller]
    IN  /\ mainPc' = IF call.pc = "idle" THEN AfterRegister(call.err) ELSE "registering"
        /\ hist' = IF call.pc = "idle"
                   THEN [hist EXCEPT !.registered = (call.err = Nil),
                                     !.regFailed = (call.err # Nil)]
                   ELSE hist
        /\ UNCHANGED server

\* Lines 49-53: Register of the service's own instance under Background;
\* discovery.go:43-46.
MainRegister(avail) ==
    /\ mainPc = "register"
    /\ RegisterGrant(MainCaller, OrderInstance, Background, avail)
    /\ MainInRegister

\* discovery.go:49-52, called from main.go:50.
MainRegisterPut(avail) ==
    /\ mainPc = "registering"
    /\ RegisterPut(MainCaller, avail)
    /\ MainInRegister

\* discovery.go:55-66, called from main.go:50.
MainRegisterKeepAlive ==
    /\ mainPc = "registering"
    /\ RegisterKeepAlive(MainCaller)
    /\ MainInRegister

\* Lines 64-68: the Redis ping only logs.
MainPing ==
    /\ proc = "running"
    /\ mainPc = "ping"
    /\ mainPc' = "startServer"
    /\ UNCHANGED <<store, leases, keepAlives, tasks, cancelled, client, proc,
                   calls, server, leaseInst, bound, hist>>

\* Lines 71-76: the goroutine that runs server.Start is launched.
MainStartServer ==
    /\ proc = "running"
    /\ mainPc = "startServer"
    /\ mainPc' = "select"
    /\ server' = "starting"
    /\ hist' = [hist EXCEPT !.serverStarted = TRUE]
    /\ UNCHANGED <<store, leases, keepAlives, tasks, cancelled, client, proc,
                   calls, leaseInst, bound>>

\* OrderServer.Start, part_001:122-128: net.Listen; an error goes to serverErr.
ServerListen(ok) ==
    /\ proc = "running"
    /\ server = "starting"
    /\ server' = IF ok THEN "listening" ELSE "failed"
    /\ UNCHANGED <<store, leases, keepAlives, tasks, cancelled, client, proc,
                   calls, mainPc, leaseInst, bound, hist>>

\* OrderServer.Start, part_001:135: srv.Serve returns an error.
ServerServeFails ==
    /\ proc = "running"
    /\ server = "listening"
    /\ server' = "failed"
    /\ UNCHANGED <<store, leases, keepAlives, tasks, cancelled, client, proc,
                   calls, mainPc, leaseInst, bound, hist>>

\* Lines 82-84: a shutdown signal is received.
MainSignal ==
    /\ proc = "running"
    /\ mainPc = "select"
    /\ mainPc' = "deregister"
    /\ UNCHANGED <<store, leases, keepAlives, tasks, cancelled, client, proc,
                   calls, server, leaseInst, bound, hist>>

\* Lines 85-86: the server's error is received; logger.Fatal.
MainServerError ==
    /\ proc = "running"
    /\ mainPc = "select"
    /\ server = "failed"
    /\ mainPc' = "fatal"
    /\ UNCHANGED <<store, leases, keepAlives, tasks, cancelled, client, proc,
                   calls, server, leaseInst, bound, hist>>

\* Lines 90-96: Deregister; a failure is only logged.
MainDeregister(avail) ==
    /\ mainPc = "deregister"
    /\ Deregister(OrderInstance, Background, avail)
    /\ mainPc' = "deferred"
    /\ hist' = [hist EXCEPT !.deregIssued = TRUE]
    /\ UNCHANGED server

\* Line 46, run when main returns: defer sd.Close().
MainDeferredClose ==
    /\ mainPc = "deferred"
    /\ Close
    /\ mainPc' = "return"
    /\ hist' = [hist EXCEPT !.closed = TRUE]
    /\ UNCHANGED server

\* Lines 39, 28 and 99: server.Close(), logger.Sync(), main returns.
MainReturn ==
    /\ proc = "running"
    /\ mainPc = "return"
    /\ ProcessEnds("exited")
    /\ mainPc' = "exited"
    /\ server' = StoppedServer
    /\ UNCHANGED hist

\* logger.Fatal (lines 37, 44, 56, 86) or the panic of line 20: the process
\* exits at once.
MainFatal ==
    /\ proc = "running"
    /\ mainPc = "fatal"
    /\ ProcessEnds("exited")
    /\ mainPc' = "exited"
    /\ server' = StoppedServer
    /\ UNCHANGED hist

\* The process is killed.
MainCrash ==
    /\ Crash
    /\ mainPc' = "crashed"
    /\ server' = StoppedServer
    /\ UNCHANGED hist

InitOrder ==
    /\ InitStore
    /\ client = "none"
    /\ mainPc = "newServer"

OrderNewOrderServer == \E ok \in BOOLEAN : MainNewOrderServer(ok)
OrderNewServiceDiscovery == \E ok \in BOOLEAN : MainNewServiceDiscovery(ok)
OrderRegister == \E avail \in BOOLEAN : MainRegister(avail)
OrderRegisterPut == \E avail \in BOOLEAN : MainRegisterPut(avail)
OrderServerListen == \E ok \in BOOLEAN : ServerListen(ok)
OrderDeregister == \E avail \in BOOLEAN : MainDeregister(avail)

NextOrder ==
    \/ OrderNewOrderServer /\ UNCHANGED componentVars
    \/ OrderNewServiceDiscovery /\ UNCHANGED componentVars
    \/ OrderRegister /\ UNCHANGED componentVars
    \/ OrderRegisterPut /\ UNCHANGED componentVars
    \/ MainRegisterKeepAlive /\ UNCHANGED componentVars
    \/ MainPing /\ UNCHANGED componentVars
    \/ MainStartServer /\ UNCHANGED componentVars
    \/ OrderServerListen /\ UNCHANGED componentVars
    \/ ServerServeFails /\ UNCHANGED componentVars
    \/ MainSignal /\ UNCHANGED componentVars
    \/ MainServerError /\ UNCHANGED componentVars
    \/ OrderDeregister /\ UNCHANGED componentVars
    \/ MainDeferredClose /\ UNCHANGED componentVars
    \/ MainReturn /\ UNCHANGED componentVars
    \/ MainFatal /\ UNCHANGED componentVars
    \/ MainCrash /\ UNCHANGED componentVars
    \/ KeepAliveRenew
    \/ GoroutineExit
    \/ ClockTick

SpecOrder == InitOrder /\ [][NextOrder]_vars

(***************************************************************************)
(* ClientManager, part_002: the gateway's RPC channels.                    *)
(***************************************************************************)
Services == {"user", "order"}

\* part_002:65 and 104: the names handed to Discover.
ServiceNameOf == [user |-> "user-service", order |-> "order-service"]

\* part_002:58 and 97: the static default addresses.
DefaultTarget == [user |-> "localhost:50051", order |-> "localhost:50052"]

\* Instances other processes have registered in the store the gateway reads.
UserPeerA == [Name |-> "user-service", Host |-> "10.0.0.7", Port |-> 50051]
UserPeerB == [Name |-> "user-service", Host |-> "10.0.0.8", Port |-> 50051]
Peers == <<UserPeerA, UserPeerB, OrderInstance>>

\* grpc.DialContext with WithBlock under a 5 s deadline that cannot connect.
DialError == "context deadline exceeded"

\* grpc ClientConn.Close refusing (the connection is already closed).
ConnCloseError == "grpc: the client connection is closing"

\* part_002:61-65 and 100-104: Discover is called only when the manager has
\* a registry client; its context has a 2 s deadline.
Lookup(svc, kvs, avail) ==
    IF client = "none"
    THEN [called |-> FALSE, err |-> Nil, instances |-> <<>>]
    ELSE LET r == DiscoverReturn(kvs, ServiceNameOf[svc], ~(avail /\ client = "open"))
         IN  [called |-> TRUE, err |-> r.err, instances |-> r.instances]

\* A resolution that never uses what Discover returned.
ResolveTargetStatic(svc, lookup) == DefaultTarget[svc]

\* part_002:58-72 and 97-111: the address to dial: the first discovered
\* entry, or the default.
ResolveTarget(svc, lookup) ==
    IF lookup.called /\ lookup.err = Nil /\ Len(lookup.instances) > 0
    THEN lookup.instances[1].Host
    ELSE DefaultTarget[svc]

\* part_002:79-91 and 118-130: dial the target; on success the connection
\* and the client are stored.
ConnectService(svc, target, up) ==
    IF up
    THEN [err |-> Nil, conn |-> [target |-> target, open |-> TRUE], rpc |-> target]
    ELSE [err |-> DialError, conn |-> conns[svc], rpc |-> clients[svc]]

\* A Connect that goes on to the order service after the user service failed.
ConnectNextKeepGoing(svc, err) == IF svc = "user" THEN "orderDiscover" ELSE "idle"

\* part_002:43-52: where Connect goes after a service's connect: on to the
\* order service only when the user service connected, else it returns.
ConnectNext(svc, err) == IF svc = "user" /\ err = Nil THEN "orderDiscover" ELSE "idle"

\* part_002:44 and 49: the error Connect returns for a service's error.
ConnectError(svc, err) ==
    IF err = Nil THEN Nil
    ELSE "failed to connect to " \o svc \o " service: " \o err

\* Connect holds no lock and blocks in Discover and in DialContext: other
\* goroutines run between its steps.  connectRet is the call: its position,
\* what Discover returned, the targets dialed so far and the error returned.

\* part_002:58-72 and 97-111: the target of a service is resolved.
ConnectDiscover(svc, avail) ==
    /\ proc = "running"
    /\ connectRet.pc = (IF svc = "user" THEN "idle" ELSE "orderDiscover")
    /\ LET lookup == Lookup(svc, store, avail)
       IN  connectRet' =
               IF svc = "user"
               THEN [NoReturn EXCEPT !.pc = "userDial", !.found = <<lookup>>]
               ELSE [connectRet EXCEPT !.pc = "orderDial", !.found = Append(@, lookup)]
    /\ UNCHANGED <<store, leases, keepAlives, tasks, cancelled, client, proc,
                   calls, leaseInst, bound, mainVars>>
    /\ UNCHANGED <<conns, clients, closeRet, gwPc, gwServer, gwHist>>

\* part_002:74-91 and 113-130, then 43-52: the target is dialed, connection
\* and client are stored, and Connect goes on or returns.
ConnectDial(svc, up) ==
    /\ proc = "running"
    /\ connectRet.pc = (IF svc = "user" THEN "userDial" ELSE "orderDial")
    /\ LET target == ResolveTarget(svc, connectRet.found[Len(connectRet.found)])
           r == ConnectService(svc, target, up)
           next == ConnectNext(svc, r.err)
           err == IF connectRet.err # Nil THEN connectRet.err
                  ELSE ConnectError(svc, r.err)
       IN  /\ conns' = [conns EXCEPT ![svc] = r.conn]
           /\ clients' = [clients EXCEPT ![svc] = r.rpc]
           /\ connectRet' = [connectRet EXCEPT !.pc = next, !.err = err,
                                               !.did = Append(@, target)]
           /\ gwHist' = IF next = "idle"
                        THEN [gwHist EXCEPT !.connected = (err = Nil),
                                            !.connectFailed = (err # Nil)]
                        ELSE gwHist
    /\ UNCHANGED <<store, leases, keepAlives, tasks, cancelled, client, proc,
                   calls, leaseInst, bound, mainVars>>
    /\ UNCHANGED <<closeRet, gwPc, gwServer>>

\* part_002:149 and 155: the error recorded for a connection's failed close.
CloseErrors(svc, fails) ==
    IF fails THEN <<svc \o " connection close error: " \o ConnCloseError>> ELSE <<>>

\* part_002:159-163: nil without errors, else the list printed with %v.
CloseError(errs) ==
    IF Len(errs) = 0 THEN Nil
    ELSE IF Len(errs) = 1
         THEN "errors closing connections: [" \o errs[1] \o "]"
         ELSE "errors closing connections: [" \o errs[1] \o " " \o errs[2] \o "]"

\* A Close that stops at the first connection whose close fails.
CloseAttemptsStopAtFirst(svc, errs) ==
    IF conns[svc] # NoConn /\ errs = <<>> THEN <<svc>> ELSE <<>>

\* part_002:147 and 153: Close calls Close on a connection that is not nil.
CloseAttempts(svc, errs) ==
    IF conns[svc] # NoConn THEN <<svc>> ELSE <<>>

\* ClientManager.Close, one connection at a time (part_002:147-151, then
\* 153-163): it holds no lock either.  closeRet is the call.  A close of a
\* connection that is already closed fails; breaks makes a close of an open
\* one fail.
Close_ClientManager(svc, breaks) ==
    /\ proc = "running"
    /\ closeRet.pc = (IF svc = "user" THEN "idle" ELSE "order")
    /\ LET call == IF svc = "user" THEN NoReturn ELSE closeRet
           attempts == CloseAttempts(svc, call.failed)
           fails == attempts # <<>> /\ (breaks \/ ~conns[svc].open)
           errs == call.failed \o CloseErrors(svc, fails)
       IN  /\ conns' = IF attempts # <<>>
                       THEN [conns EXCEPT ![svc].open = FALSE]
                       ELSE conns
           /\ closeRet' = [pc |-> IF svc = "user" THEN "order" ELSE "idle",
                           err |-> IF svc = "user" THEN Nil ELSE CloseError(errs),
                           did |-> call.did \o attempts,
                           found |-> <<>>,
                           failed |-> errs]
    /\ UNCHANGED <<store, leases, keepAlives, tasks, cancelled, client, proc,
                   calls, leaseInst, bound, mainVars>>
    /\ UNCHANGED <<clients, connectRet, gwPc, gwServer, gwHist>>

\* The store as other processes' registrations have left it.
PeerRecord(j) ==
    [key |-> InstanceKey(Peers[j]), value |-> InstanceValue(Peers[j]), lease |-> j]

InitPeers ==
    \E live \in SUBSET DOMAIN Peers :
        /\ store = {PeerRecord(j) : j \in live}
        /\ bound = [k \in {InstanceKey(Peers[j]) : j \in live} |->
                        CHOOSE j \in live : InstanceKey(Peers[j]) = k]
    /\ leases = [j \in DOMAIN Peers |-> 0]
    /\ leaseInst = Peers
    /\ keepAlives = {}
    /\ tasks = {}
    /\ cancelled = {}
    /\ calls = [c \in Callers |-> IdleCall]
    /\ proc = "running"
    /\ server = "off"
    /\ hist = NoHistory
    /\ mainPc = "library"

\* NewClientManager (part_002:32-38) with a registry client or with nil.
InitClients ==
    /\ InitPeers
    /\ ActorsIdle
    /\ UsersIdle
    /\ GatewayIdle
    /\ client \in {"none", "open"}

CmConnectDiscover ==
    \E svc \in Services, avail \in BOOLEAN : ConnectDiscover(svc, avail)

CmConnectDial ==
    \E svc \in Services, up \in BOOLEAN : ConnectDial(svc, up)

CmClose ==
    \E svc \in Services, breaks \in BOOLEAN : Close_ClientManager(svc, breaks)

\* The registry client handed to the manager is closed by its owner.
CmRegistryClose ==
    /\ client = "open"
    /\ Close
    /\ UNCHANGED <<mainVars, gatewayVars>>

NextClients ==
    \/ CmConnectDiscover /\ UNCHANGED otherVars
    \/ CmConnectDial /\ UNCHANGED otherVars
    \/ CmClose /\ UNCHANGED otherVars
    \/ CmRegistryClose /\ UNCHANGED otherVars

SpecClients == InitClients /\ [][NextClients]_vars

(***************************************************************************)
(* The gateway's main, part_005:37-91, and its handlers, gateway.go.       *)
(***************************************************************************)
registryVars == <<store, leases, keepAlives, tasks, cancelled, client, proc,
                  calls, leaseInst, bound>>

\* part_005:39-49: config and logger; an error panics.
GwLoadConfig(ok) ==
    /\ proc = "running"
    /\ gwPc = "config"
    /\ gwPc' = IF ok THEN "newSd" ELSE "fatal"
    /\ UNCHANGED <<registryVars, mainVars>>
    /\ UNCHANGED <<conns, clients, connectRet, closeRet, gwServer, gwHist>>

\* part_005:56-59: NewServiceDiscovery; an error is logged and sd stays nil.
GwNewServiceDiscovery(ok) ==
    /\ proc = "running"
    /\ gwPc = "newSd"
    /\ client' = IF ok THEN "open" ELSE "none"
    /\ gwPc' = "newGateway"
    /\ UNCHANGED <<store, leases, keepAlives, tasks, cancelled, proc, calls,
                   leaseInst, bound, mainVars>>
    /\ UNCHANGED <<conns, clients, connectRet, closeRet, gwServer, gwHist>>

\* part_005:62-63: NewGateway (gateway.go:27-43, a ClientManager with no
\* connection) and SetupRoutes.
GwNewGateway ==
    /\ proc = "running"
    /\ gwPc = "newGateway"
    /\ conns' = [user |-> NoConn, order |-> NoConn]
    /\ clients' = [user |-> Nil, order |-> Nil]
    /\ gwPc' = "start"
    /\ UNCHANGED <<registryVars, mainVars>>
    /\ UNCHANGED <<connectRet, closeRet, gwServer, gwHist>>

\* part_005:66-73: the goroutine running gw.Start is launched.
GwStart ==
    /\ proc = "running"
    /\ gwPc = "start"
    /\ gwServer' = "starting"
    /\ gwPc' = "select"
    /\ UNCHANGED <<registryVars, mainVars>>
    /\ UNCHANGED <<conns, clients, connectRet, closeRet, gwHist>>

\* Gateway.Start, gateway.go:83-87: router.Run listens, or returns an error
\* that goes to gwErr.
GwListen(ok) ==
    /\ proc = "running"
    /\ gwServer = "starting"
    /\ gwServer' = IF ok THEN "serving" ELSE "failed"
    /\ UNCHANGED <<registryVars, mainVars>>
    /\ UNCHANGED <<conns, clients, connectRet, closeRet, gwPc, gwHist>>

\* A handler of gateway.go:96-330 serves a request: it calls a method of
\* UserClient() or OrderClient() (part_002:134-141), nil when no Connect
\* has stored a client.
GwHandle(svc) ==
    /\ proc = "running"
    /\ gwServer = "serving"
    /\ gwHist' = [gwHist EXCEPT !.handlerRan = TRUE,
                                !.nilClientUsed = @ \/ clients[svc] = Nil]
    /\ UNCHANGED <<registryVars, mainVars>>
    /\ UNCHANGED <<conns, clients, connectRet, closeRet, gwPc, gwServer>>

\* part_005:79-81: a shutdown signal is received.
GwSignal ==
    /\ proc = "running"
    /\ gwPc = "select"
    /\ gwPc' = "close"
    /\ UNCHANGED <<registryVars, mainVars>>
    /\ UNCHANGED <<conns, clients, connectRet, closeRet, gwServer, gwHist>>

\* part_005:82-83: the gateway's error is received; logger.Fatal.
GwServerError ==
    /\ proc = "running"
    /\ gwPc = "select"
    /\ gwServer = "failed"
    /\ gwPc' = "fatal"
    /\ UNCHANGED <<registryVars, mainVars>>
    /\ UNCHANGED <<conns, clients, connectRet, closeRet, gwServer, gwHist>>

\* part_005:86-88: sd.Close() when there is a registry client.
GwCloseRegistry ==
    /\ proc = "running"
    /\ gwPc = "close"
    /\ IF client = "open"
       THEN Close
       ELSE UNCHANGED registryVars
    /\ gwPc' = "return"
    /\ UNCHANGED mainVars
    /\ UNCHANGED <<conns, clients, connectRet, closeRet, gwServer, gwHist>>

\* part_005:90-91, or logger.Fatal / panic: the process ends.
GwExit ==
    /\ proc = "running"
    /\ gwPc \in {"return", "fatal"}
    /\ ProcessEnds("exited")
    /\ gwPc' = "exited"
    /\ gwServer' = IF gwServer = "off" THEN "off" ELSE "stopped"
    /\ UNCHANGED mainVars
    /\ UNCHANGED <<conns, clients, connectRet, closeRet, gwHist>>

InitGateway ==
    /\ InitPeers
    /\ ActorsIdle
    /\ UsersIdle
    /\ client = "none"
    /\ conns = [user |-> NoConn, order |-> NoConn]
    /\ clients = [user |-> Nil, order |-> Nil]
    /\ connectRet = NoReturn
    /\ closeRet = NoReturn
    /\ gwPc = "config"
    /\ gwServer = "off"
    /\ gwHist = NoGatewayHistory

GatewayLoadConfig == \E ok \in BOOLEAN : GwLoadConfig(ok)
GatewayNewServiceDiscovery == \E ok \in BOOLEAN : GwNewServiceDiscovery(ok)
GatewayListen == \E ok \in BOOLEAN : GwListen(ok)
GatewayHandle == \E svc \in Services : GwHandle(svc)

NextGateway ==
    \/ GatewayLoadConfig /\ UNCHANGED otherVars
    \/ GatewayNewServiceDiscovery /\ UNCHANGED otherVars
    \/ GwNewGateway /\ UNCHANGED otherVars
    \/ GwStart /\ UNCHANGED otherVars
    \/ GatewayListen /\ UNCHANGED otherVars
    \/ GatewayHandle /\ UNCHANGED otherVars
    \/ GwSignal /\ UNCHANGED otherVars
    \/ GwServerError /\ UNCHANGED otherVars
    \/ GwCloseRegistry /\ UNCHANGED otherVars
    \/ GwExit /\ UNCHANGED otherVars

SpecGateway == InitGateway /\ [][NextGateway]_vars

(***************************************************************************)
(* The actors of cmd/order/main.go:117-243.                                *)
(***************************************************************************)
\* Units of execution that call Send and RequestFuture.
Senders == {"s1", "s2"}

\* Messages issued in all, by Send and by RequestFuture.
MaxRequests == 3

\* Distinct readings of the clock; a reading never lies before an earlier one.
MaxClock == 2

Started == [type |-> "Started", arg |-> ""]

\* The request types of main.go:153-156, 171-173, 204-208, 245-252.
OrderMessages ==
    { [type |-> "CreateOrder", arg |-> "user-123"],
      [type |-> "GetOrderStatus", arg |-> "ORD-1"] }
NotificationMessages == { [type |-> "SendNotification", arg |-> "email"] }
ClusterMessages ==
    { [type |-> "CreateOrderCluster", arg |-> "u1"],
      [type |-> "GetOrderStatusCluster", arg |-> "ORD-1"],
      [type |-> "GetOrderStatusCluster", arg |-> "bogus"] }
Messages == OrderMessages \cup NotificationMessages \cup ClusterMessages

\* main.go:128 and 226: fmt.Sprintf("ORD-%d", time.Now().UnixNano()).
NewOrderID(now) == "ORD-" \o Itoa(now)

\* OrderActor.Receive, main.go:117-150: the values handed to ctx.Respond.
OrderActorReceive(msg, now) ==
    CASE msg.type = "CreateOrder" ->
            << [type |-> "OrderResponse", OrderID |-> NewOrderID(now),
                Status |-> "created", Message |-> "Order created successfully"] >>
      [] msg.type = "GetOrderStatus" ->
            << [type |-> "OrderStatus", OrderID |-> msg.arg, Status |-> "processing"] >>
      [] OTHER -> << >>

\* NotificationActor.Receive, main.go:185-202.
NotificationActorReceive(msg) ==
    CASE msg.type = "SendNotification" ->
            << [type |-> "NotificationResponse", Success |-> TRUE,
                Message |-> "Notification sent successfully"] >>
      [] OTHER -> << >>

\* A Started case that leaves the map nil.
ClusterOnStartedNoMake(state) == state

\* OrderClusterActor.Receive, main.go:222-223: a.orders = make(map).
ClusterOnStarted(state) == [made |-> TRUE, m |-> << >>]

\* A lookup that reports a miss with an empty status.
ClusterLookupEmptyOnMiss(state, id) ==
    IF id \in DOMAIN state.m
    THEN [type |-> "OrderStatus", OrderID |-> state.m[id].OrderID,
          Status |-> state.m[id].Status]
    ELSE [type |-> "OrderStatus", OrderID |-> id, Status |-> ""]

\* main.go:237-241: the reply to GetOrderStatusCluster.
ClusterLookup(state, id) ==
    IF id \in DOMAIN state.m
    THEN [type |-> "OrderStatus", OrderID |-> state.m[id].OrderID,
          Status |-> state.m[id].Status]
    ELSE [type |-> "OrderStatus", OrderID |-> id, Status |-> "not found"]

\* OrderClusterActor.Receive, main.go:225-242: the map afterwards, the values
\* handed to ctx.Respond, and whether the write to a nil map panicked.
OrderClusterActorReceive(state, msg, now) ==
    CASE msg.type = "CreateOrderCluster" ->
            IF state.made
            THEN [orders |-> [made |-> TRUE,
                              m |-> (NewOrderID(now) :>
                                        [OrderID |-> NewOrderID(now),
                                         UserID |-> msg.arg,
                                         Status |-> "pending"]) @@ state.m],
                  responds |-> << [type |-> "OrderResponse",
                                   OrderID |-> NewOrderID(now),
                                   Status |-> "pending"] >>,
                  panicked |-> FALSE]
            ELSE [orders |-> state, responds |-> << >>, panicked |-> TRUE]
      [] msg.type = "GetOrderStatusCluster" ->
            [orders |-> state, responds |-> << ClusterLookup(state, msg.arg) >>,
             panicked |-> FALSE]
      [] OTHER -> [orders |-> state, responds |-> << >>, panicked |-> FALSE]

\* Receive of the actor spawned under the name, with the clock reading it
\* gets from time.Now().
Receive(a, msg, now) ==
    CASE a = "order-actor" ->
            [orders |-> orders, responds |-> OrderActorReceive(msg, now),
             panicked |-> FALSE]
      [] a = "notification-actor" ->
            [orders |-> orders, responds |-> NotificationActorReceive(msg),
             panicked |-> FALSE]
      [] OTHER -> OrderClusterActorReceive(orders, msg, now)

\* main.go:128 and 226: the requests whose Receive reads the clock.
ReadsClock(msg) == msg.type \in {"CreateOrder", "CreateOrderCluster"}

(***************************************************************************)
(* The Actor System the actors run under: spawn, mailboxes, request        *)
(* futures.  main.go only calls it (lines 265-298).                        *)
(***************************************************************************)
NoResult == [type |-> "none"]
PendingFuture == [state |-> "pending", result |-> NoResult]

\* Messages the sender has issued so far; responds has an entry for each.
Sent(s) == Cardinality({id \in DOMAIN responds : id[1] = s})

\* A mailbox that hands out the newest message first.
DequeueNewest(q) == [next |-> q[Len(q)], rest |-> SubSeq(q, 1, Len(q) - 1)]

\* The mailbox hands out the oldest queued message.
Dequeue(q) == [next |-> Head(q), rest |-> Tail(q)]

\* A mailbox that starts a Receive while another one runs.
CanDispatchAlways(a) == TRUE

\* A mailbox invokes Receive only when no Receive of its actor is running.
CanDispatch(a) == running[a] = {}

\* A future that takes a reply after it has been resolved.
FutureReplyOverwrites(f, response) == [state |-> "replied", result |-> response]

\* A future is resolved by the first reply, if it is still pending.
FutureReply(f, response) ==
    IF f.state = "pending" THEN [state |-> "replied", result |-> response] ELSE f

RECURSIVE FutureDeliver(_, _)
FutureDeliver(f, resps) ==
    IF resps = << >> THEN f
    ELSE FutureDeliver(FutureReply(f, Head(resps)), Tail(resps))

\* Replies that found the future resolved already.
LateReplies(f, resps) ==
    IF f.state = "pending" THEN Len(resps) > 1 ELSE Len(resps) > 0

\* The signal a Stop request puts into the target's mailbox.
StopSignal == [type |-> "Stop", arg |-> ""]

\* What SpawnNamed returns for a name in use by a live actor.
ErrNameExists == "spawn: name exists"

\* Stop requests that may wait in one mailbox.
MaxStops == 2

\* The actors that have been spawned and have not reached Stopped.
Live == {a \in spawned : life[a] # "stopped"}

\* A SpawnNamed that puts a new actor in the place of a live one.
SpawnOutcomeReplaces(a, live) == [err |-> Nil, created |-> TRUE]

\* SpawnNamed fails when the name is in use by a live actor.
SpawnOutcome(a, live) ==
    IF a \in live
    THEN [err |-> ErrNameExists, created |-> FALSE]
    ELSE [err |-> Nil, created |-> TRUE]

\* main.go:271 and 280: SpawnNamed.  The new actor's mailbox holds Started;
\* the error is what main.go:272 and 281 test.
Spawn(a) ==
    /\ life[a] # "stopped"
    /\ LET o == SpawnOutcome(a, Live)
       IN  /\ spawnErr' = o.err
           /\ IF o.created
              THEN /\ spawned' = spawned \cup {a}
                   /\ mailbox' = [mailbox EXCEPT ![a] = [sys |-> <<Started>>, user |-> << >>]]
                   /\ running' = [running EXCEPT ![a] = {}]
                   /\ life' = [life EXCEPT ![a] = "starting"]
                   /\ orders' = IF a = "order-cluster-actor" THEN NilMap ELSE orders
              ELSE UNCHANGED <<spawned, mailbox, running, life, orders>>
    /\ UNCHANGED <<startedCount, futures, responds, processed, discarded, clock,
                   signals, deadLetters>>

\* A router that enqueues for a stopped actor all the same.
RouteAlwaysMailbox(state) == "mailbox"

\* Where the Actor System sends a message for an actor in the given state.
Route(state) == IF state = "stopped" THEN "deadletter" ELSE "mailbox"

\* main.go:291-296: RequestFuture enqueues the request and returns a future;
\* for a stopped target the future fails with the dead-letter condition.
RequestFuture(s, a, msg) ==
    /\ a \in spawned
    /\ Cardinality(DOMAIN responds) < MaxRequests
    /\ LET id == <<s, Sent(s) + 1>>
       IN  /\ responds' = (id :> << >>) @@ responds
           /\ IF Route(life[a]) = "mailbox"
              THEN /\ mailbox' = [mailbox EXCEPT ![a].user = Append(@, [id |-> id, msg |-> msg])]
                   /\ futures' = (id :> PendingFuture) @@ futures
                   /\ UNCHANGED deadLetters
              ELSE /\ futures' = (id :> [state |-> "deadletter", result |-> NoResult]) @@ futures
                   /\ deadLetters' = deadLetters \cup {id}
                   /\ UNCHANGED mailbox
    /\ UNCHANGED <<spawned, running, startedCount, orders, processed, discarded,
                   clock, life, signals, spawnErr>>

\* Send(identity, message): a fire-and-forget message is enqueued and no
\* future is made; for a stopped target it goes to the dead letters.
Send(s, a, msg) ==
    /\ a \in spawned
    /\ Cardinality(DOMAIN responds) < MaxRequests
    /\ LET id == <<s, Sent(s) + 1>>
       IN  /\ responds' = (id :> << >>) @@ responds
           /\ IF Route(life[a]) = "mailbox"
              THEN /\ mailbox' = [mailbox EXCEPT ![a].user = Append(@, [id |-> id, msg |-> msg])]
                   /\ UNCHANGED deadLetters
              ELSE /\ deadLetters' = deadLetters \cup {id}
                   /\ UNCHANGED mailbox
    /\ UNCHANGED <<spawned, running, startedCount, orders, futures, processed,
                   discarded, clock, life, signals, spawnErr>>

\* Stop(identity): a stop request is queued with the signals of the target.
Stop(a) ==
    /\ a \in Live
    /\ Len(SelectSeq(mailbox[a].sys, LAMBDA m : m = StopSignal)) < MaxStops
    /\ mailbox' = [mailbox EXCEPT ![a].sys = Append(@, StopSignal)]
    /\ UNCHANGED <<spawned, running, startedCount, orders, futures, responds,
                   processed, discarded, clock, lifeVars>>

\* The mailbox hands Started to Receive (main.go:141, 199, 222).
ReceiveStarted(a) ==
    /\ a \in spawned
    /\ CanDispatch(a)
    /\ mailbox[a].sys # << >>
    /\ Head(mailbox[a].sys) = Started
    /\ mailbox' = [mailbox EXCEPT ![a].sys = Dequeue(@).rest]
    /\ startedCount' = [startedCount EXCEPT ![a] = @ + 1]
    /\ orders' = IF a = "order-cluster-actor" THEN ClusterOnStarted(orders) ELSE orders
    /\ life' = [life EXCEPT ![a] = "running"]
    /\ signals' = [signals EXCEPT ![a] = Append(@, "Started")]
    /\ UNCHANGED <<spawned, running, futures, responds, processed, discarded, clock,
                   deadLetters, spawnErr>>

\* A stop request that takes a stopped actor back to Stopping.
OnStopRestarts(state) == "stopping"

\* The state a stop request leaves the actor in: only a running actor
\* starts to stop.
OnStop(state) == IF state = "running" THEN "stopping" ELSE state

\* The mailbox takes a stop request once no Receive is in progress and hands
\* Stopping to Receive (main.go:144-145); a request for an actor that is
\* stopping or stopped already has no effect.
ReceiveStopping(a) ==
    /\ a \in spawned
    /\ CanDispatch(a)
    /\ mailbox[a].sys # << >>
    /\ Head(mailbox[a].sys) = StopSignal
    /\ mailbox' = [mailbox EXCEPT ![a].sys = Dequeue(@).rest]
    /\ life' = [life EXCEPT ![a] = OnStop(@)]
    /\ signals' = [signals EXCEPT ![a] =
                      IF OnStop(life[a]) # life[a] THEN Append(@, "Stopping") ELSE @]
    /\ UNCHANGED <<spawned, running, startedCount, orders, futures, responds,
                   processed, discarded, clock, deadLetters, spawnErr>>

\* After Stopping the mailbox hands Stopped to Receive (main.go:147-148).
ReceiveStopped(a) ==
    /\ life[a] = "stopping"
    /\ signals[a][Len(signals[a])] = "Stopping"
    /\ life' = [life EXCEPT ![a] = "stopped"]
    /\ signals' = [signals EXCEPT ![a] = Append(@, "Stopped")]
    /\ UNCHANGED <<spawned, mailbox, running, startedCount, orders, futures,
                   responds, processed, discarded, clock, deadLetters, spawnErr>>

\* The mailbox hands the next request to Receive.
ReceiveBegin(a) ==
    /\ a \in spawned
    /\ life[a] = "running"
    /\ CanDispatch(a)
    /\ mailbox[a].sys = << >>
    /\ mailbox[a].user # << >>
    /\ LET d == Dequeue(mailbox[a].user)
       IN  /\ mailbox' = [mailbox EXCEPT ![a].user = d.rest]
           /\ running' = [running EXCEPT ![a] = @ \cup {d.next}]
           /\ processed' = [processed EXCEPT ![a] = Append(@, d.next.id)]
    /\ UNCHANGED <<spawned, startedCount, orders, futures, responds, discarded,
                   clock, lifeVars>>

\* Receive runs to its end: its writes to the actor's state and its Respond
\* calls take effect (for CreateOrder after the sleep of main.go:125).  The
\* replies to a message that carries no future resolve nothing.
ReceiveEnd(a) ==
    \E env \in running[a] :
      \E now \in clock..Min(clock + 1, MaxClock) :
        LET out == Receive(a, env.msg, now)
        IN  /\ ReadsClock(env.msg) \/ now = clock
            /\ clock' = now
            /\ running' = [running EXCEPT ![a] = @ \ {env}]
            /\ orders' = out.orders
            /\ responds' = [responds EXCEPT ![env.id] = out.responds]
            /\ futures' = IF env.id \in DOMAIN futures
                          THEN [futures EXCEPT ![env.id] = FutureDeliver(@, out.responds)]
                          ELSE futures
            /\ discarded' = IF /\ env.id \in DOMAIN futures
                               /\ LateReplies(futures[env.id], out.responds)
                            THEN discarded \cup {env.id} ELSE discarded
            /\ UNCHANGED <<spawned, mailbox, startedCount, processed, lifeVars>>

\* A timeout that also takes the request out of the mailbox.
FutureTimeoutRetracts(id) ==
    /\ futures[id].state = "pending"
    /\ futures' = [futures EXCEPT ![id] = [state |-> "timeout", result |-> NoResult]]
    /\ mailbox' = [a \in Actors |->
                      [mailbox[a] EXCEPT !.user = SelectSeq(@, LAMBDA e : e.id # id)]]
    /\ UNCHANGED <<spawned, running, startedCount, orders, responds,
                   processed, discarded, clock, lifeVars>>

\* main.go:296: the 5 s timeout of the future passes before a reply.
FutureTimeout(id) ==
    /\ futures[id].state = "pending"
    /\ futures' = [futures EXCEPT ![id] = [state |-> "timeout", result |-> NoResult]]
    /\ UNCHANGED <<spawned, mailbox, running, startedCount, orders, responds,
                   processed, discarded, clock, lifeVars>>

restVars == <<registryVars, mainVars, gatewayVars, userVars>>

InitActors ==
    /\ InitStore
    /\ client = "none"
    /\ mainPc = "library"

\* StartActorService, main.go:263-312: the two actors are spawned, then
\* requests go to the order actor.
SpawnOrderActor ==
    /\ "order-actor" \notin spawned
    /\ Spawn("order-actor")
    /\ UNCHANGED restVars

SpawnNotificationActor ==
    /\ "order-actor" \in spawned
    /\ "notification-actor" \notin spawned
    /\ Spawn("notification-actor")
    /\ UNCHANGED restVars

SendOrderRequest ==
    \E s \in Senders, msg \in OrderMessages :
        /\ "notification-actor" \in spawned
        /\ RequestFuture(s, "order-actor", msg)
        /\ UNCHANGED restVars

MailboxStarted == \E a \in Actors : ReceiveStarted(a) /\ UNCHANGED restVars
MailboxBegin == \E a \in Actors : ReceiveBegin(a) /\ UNCHANGED restVars
MailboxEnd == \E a \in Actors : ReceiveEnd(a) /\ UNCHANGED restVars
TimerFires == \E id \in DOMAIN futures : FutureTimeout(id) /\ UNCHANGED restVars

NextActors ==
    \/ SpawnOrderActor
    \/ SpawnNotificationActor
    \/ SendOrderRequest
    \/ MailboxStarted
    \/ MailboxBegin
    \/ MailboxEnd
    \/ TimerFires

SpecActors == InitActors /\ [][NextActors]_vars

\* One actor of any of the three behaviours is spawned, and one caller
\* sends it requests of any type.
SpawnAny ==
    \E a \in Actors :
        /\ spawned = {}
        /\ Spawn(a)
        /\ UNCHANGED restVars

SendAny ==
    \E a \in Actors, msg \in Messages :
        RequestFuture("s1", a, msg) /\ UNCHANGED restVars

NextCluster ==
    \/ SpawnAny
    \/ SendAny
    \/ MailboxStarted
    \/ MailboxBegin
    \/ MailboxEnd
    \/ TimerFires

SpecCluster == InitActors /\ [][NextCluster]_vars

\* One actor is spawned, SpawnNamed is called again under its name, one
\* caller sends it messages and requests, and it is stopped.
LifeMessages ==
    { [type |-> "CreateOrder", arg |-> "user-123"],
      [type |-> "CreateOrderCluster", arg |-> "u1"] }

SpawnNamedAgain == \E a \in Actors : a \in spawned /\ Spawn(a) /\ UNCHANGED restVars
SendLife ==
    \E a \in Actors, msg \in LifeMessages :
        RequestFuture("s1", a, msg) /\ UNCHANGED restVars
SendForget ==
    \E a \in Actors, msg \in LifeMessages :
        Send("s1", a, msg) /\ UNCHANGED restVars
StopActor == \E a \in Actors : Stop(a) /\ UNCHANGED restVars
MailboxStopping == \E a \in Actors : ReceiveStopping(a) /\ UNCHANGED restVars
MailboxStopped == \E a \in Actors : ReceiveStopped(a) /\ UNCHANGED restVars

NextLifecycle ==
    \/ SpawnAny
    \/ SpawnNamedAgain
    \/ SendLife
    \/ SendForget
    \/ StopActor
    \/ MailboxStarted
    \/ MailboxStopping
    \/ MailboxStopped
    \/ MailboxBegin
    \/ MailboxEnd
    \/ TimerFires

SpecLifecycle == InitActors /\ [][NextLifecycle]_vars

(***************************************************************************)
(* The user service: GetUser, UpdateUser and DeleteUser of one user, each  *)
(* call one store request at a time (user_server.go:120-244).  A user row  *)
(* is its name; email and phone are handled like the name.                 *)
(***************************************************************************)
\* UpdateUser and DeleteUser calls in one behaviour.
MaxWrites == 2

NotFound == "user not found"

\* user_server.go:139: GetUser's answer when the query fails otherwise
\* (MySQL unreachable, ctx cancelled or past its deadline).
GetFailed == "failed to get user"

\* part_004:74-77 CacheUser: SetJSON under "user:<id>".
CacheUser(cache, id, name) == [cache EXCEPT ![id] = name]

\* part_004:79-87 GetUserCache: the entry, or the error of a missing key.
GetUserCache(cache, id) ==
    IF cache[id] = NoEntry
    THEN [err |-> NoEntry, name |-> ""]
    ELSE [err |-> Nil, name |-> cache[id]]

\* part_004:42-44 Del.
Del(cache, id) == [cache EXCEPT ![id] = NoEntry]

\* user_server.go:77-90: CreateUser inserts the row under a fresh id
\* (generateUUID); an insert that fails ends the call.
CreateUserCreate(id, name, ok) ==
    /\ createCall.pc = "idle"
    /\ userDb[id] = NoRow
    /\ IF ok
       THEN /\ userDb' = [userDb EXCEPT ![id] = name]
            /\ createCall' = [pc |-> "cache", id |-> id, name |-> name]
       ELSE UNCHANGED <<userDb, createCall>>
    /\ UNCHANGED <<userCache, getCalls, writeCall, writesBegun, redisFailed>>

\* user_server.go:93-117: the user as created is cached and the call
\* returns; the error of a CacheUser that fails is dropped.
CreateUserCache(ok) ==
    /\ createCall.pc = "cache"
    /\ userCache' = IF ok THEN CacheUser(userCache, createCall.id, createCall.name)
                         ELSE userCache
    /\ createCall' = [createCall EXCEPT !.pc = "done"]
    /\ redisFailed' = (redisFailed \/ ~ok)
    /\ UNCHANGED <<userDb, getCalls, writeCall, writesBegun>>

\* user_server.go:120: a GetUser call starts.  History: the writes begun
\* before it, and whether every writing call had returned (quiet).
GetUserBegin(g, id) ==
    /\ getCalls[g].pc \in {"idle", "done"}
    /\ getCalls' = [getCalls EXCEPT ![g] =
           [pc |-> "cache", id |-> id, row |-> NoRow, ret |-> "none",
            since |-> writesBegun,
            quiet |-> writeCall.pc = "idle" /\ createCall.pc = "done"]]
    /\ UNCHANGED <<userDb, userCache, writeCall, createCall, writesBegun, redisFailed>>

\* user_server.go:122-132: a cache hit is returned as it is; any error of
\* GetUserCache (no entry, or Redis not answering) sends the call to the table.
GetUserTryCache(g, ok) ==
    /\ getCalls[g].pc = "cache"
    /\ LET c == GetUserCache(userCache, getCalls[g].id)
       IN  getCalls' = [getCalls EXCEPT ![g] =
               IF ok /\ c.err = Nil
               THEN [@ EXCEPT !.pc = "done", !.ret = c.name]
               ELSE [@ EXCEPT !.pc = "db"]]
    /\ redisFailed' = (redisFailed \/ ~ok)
    /\ UNCHANGED <<userDb, userCache, writeCall, createCall, writesBegun>>

\* user_server.go:134-140: the row is read from the table.  A query that
\* fails ends the call with the error, nothing cached (139).
GetUserQuery(g, ok) ==
    /\ getCalls[g].pc = "db"
    /\ LET row == userDb[getCalls[g].id]
       IN  getCalls' = [getCalls EXCEPT ![g] =
               IF ~ok
               THEN [@ EXCEPT !.pc = "done", !.ret = GetFailed]
               ELSE IF row = NoRow
               THEN [@ EXCEPT !.pc = "done", !.ret = NotFound]
               ELSE [@ EXCEPT !.pc = "fill", !.row = row]]
    /\ UNCHANGED <<userDb, userCache, writeCall, createCall, writesBegun, redisFailed>>

\* user_server.go:142-159: the row that was read is cached and returned;
\* the error of a CacheUser that fails is dropped.
GetUserFillCache(g, ok) ==
    /\ getCalls[g].pc = "fill"
    /\ userCache' = IF ok THEN CacheUser(userCache, getCalls[g].id, getCalls[g].row)
                         ELSE userCache
    /\ getCalls' = [getCalls EXCEPT ![g].pc = "done", ![g].ret = getCalls[g].row]
    /\ redisFailed' = (redisFailed \/ ~ok)
    /\ UNCHANGED <<userDb, writeCall, createCall, writesBegun>>

\* user_server.go:192 and 233: an UpdateUser or DeleteUser call starts.
WriteBegin(kind, id, name) ==
    /\ writeCall.pc = "idle"
    /\ writesBegun < MaxWrites
    /\ writesBegun' = writesBegun + 1
    /\ writeCall' = [pc |-> IF kind = "update" THEN "first" ELSE "delete",
                     kind |-> kind, id |-> id, name |-> name, found |-> FALSE]
    /\ UNCHANGED <<userDb, userCache, getCalls, createCall, redisFailed>>

\* user_server.go:193-199: UpdateUser reads the row; no row, or a query
\* that fails (198), and the call returns with nothing updated or deleted.
UpdateUserFirst(ok) ==
    /\ writeCall.pc = "first"
    /\ writeCall' = IF ~ok \/ userDb[writeCall.id] = NoRow
                    THEN IdleWrite
                    ELSE [writeCall EXCEPT !.pc = "updates", !.found = TRUE]
    /\ UNCHANGED <<userDb, userCache, getCalls, createCall, writesBegun, redisFailed>>

\* user_server.go:201-216: the row is updated (a row deleted meanwhile is
\* not brought back).  An Updates that fails (MySQL unreachable, ctx
\* cancelled, an email another user holds) returns the call before the
\* cache entry is deleted (214-216).
UpdateUserUpdates(ok) ==
    /\ writeCall.pc = "updates"
    /\ IF ok
       THEN /\ userDb' = [userDb EXCEPT ![writeCall.id] =
                              IF @ = NoRow THEN NoRow ELSE writeCall.name]
            /\ writeCall' = [writeCall EXCEPT !.pc = "del"]
       ELSE /\ userDb' = userDb
            /\ writeCall' = IdleWrite
    /\ UNCHANGED <<userCache, getCalls, createCall, writesBegun, redisFailed>>

\* user_server.go:234-236: the row is deleted.  A Delete that fails returns
\* the call before the cache entry is deleted.
DeleteUserDelete(ok) ==
    /\ writeCall.pc = "delete"
    /\ IF ok
       THEN /\ userDb' = [userDb EXCEPT ![writeCall.id] = NoRow]
            /\ writeCall' = [writeCall EXCEPT !.pc = "del"]
       ELSE /\ userDb' = userDb
            /\ writeCall' = IdleWrite
    /\ UNCHANGED <<userCache, getCalls, createCall, writesBegun, redisFailed>>

\* user_server.go:218-219 and 238-239: the cache entry is deleted and the
\* call returns; the error of a Del that fails is dropped.
WriteInvalidate(ok) ==
    /\ writeCall.pc = "del"
    /\ userCache' = IF ok THEN Del(userCache, writeCall.id) ELSE userCache
    /\ writeCall' = IdleWrite
    /\ redisFailed' = (redisFailed \/ ~ok)
    /\ UNCHANGED <<userDb, getCalls, createCall, writesBegun>>

\* part_004:76: the entry expires 30 minutes after it was set.
CacheExpires(id) ==
    /\ userCache[id] # NoEntry
    /\ userCache' = Del(userCache, id)
    /\ UNCHANGED <<userDb, getCalls, writeCall, createCall, writesBegun, redisFailed>>

nonUserVars == <<registryVars, mainVars, gatewayVars, actorVars>>

InitUsers ==
    /\ InitStore
    /\ client = "none"
    /\ mainPc = "library"

UserCreateCreate ==
    \E id \in UserIds, name \in Names, ok \in BOOLEAN :
        CreateUserCreate(id, name, ok) /\ UNCHANGED nonUserVars
UserCreateCache == \E ok \in BOOLEAN : CreateUserCache(ok) /\ UNCHANGED nonUserVars
UserGetBegin == \E g \in Getters, id \in UserIds : GetUserBegin(g, id) /\ UNCHANGED nonUserVars
UserGetTryCache ==
    \E g \in Getters, ok \in BOOLEAN : GetUserTryCache(g, ok) /\ UNCHANGED nonUserVars
UserGetQuery ==
    \E g \in Getters, ok \in BOOLEAN : GetUserQuery(g, ok) /\ UNCHANGED nonUserVars
UserGetFillCache ==
    \E g \in Getters, ok \in BOOLEAN : GetUserFillCache(g, ok) /\ UNCHANGED nonUserVars
UserWriteBegin ==
    \E kind \in {"update", "delete"}, id \in UserIds, name \in Names :
        /\ kind = "delete" => name = "alice"
        /\ WriteBegin(kind, id, name)
        /\ UNCHANGED nonUserVars
UserUpdateFirst == \E ok \in BOOLEAN : UpdateUserFirst(ok) /\ UNCHANGED nonUserVars
UserUpdateUpdates == \E ok \in BOOLEAN : UpdateUserUpdates(ok) /\ UNCHANGED nonUserVars
UserDeleteDelete == \E ok \in BOOLEAN : DeleteUserDelete(ok) /\ UNCHANGED nonUserVars
UserWriteInvalidate == \E ok \in BOOLEAN : WriteInvalidate(ok) /\ UNCHANGED nonUserVars
UserCacheExpires == \E id \in UserIds : CacheExpires(id) /\ UNCHANGED nonUserVars

NextUsers ==
    \/ UserCreateCreate
    \/ UserCreateCache
    \/ UserGetBegin
    \/ UserGetTryCache
    \/ UserGetQuery
    \/ UserGetFillCache
    \/ UserWriteBegin
    \/ UserUpdateFirst
    \/ UserUpdateUpdates
    \/ UserDeleteDelete
    \/ UserWriteInvalidate
    \/ UserCacheExpires

SpecUsers == InitUsers /\ [][NextUsers]_vars

(***************************************************************************)
(* What the specification says of the registry, in its own terms.          *)
(***************************************************************************)
\* Key layout <prefix><serviceName>/<host>:<port> and value <host>:<port>.
ExpectedAddr(instance) == instance.Host \o ":" \o Itoa(instance.Port)
ExpectedKey(instance) ==
    "/microshop/services/" \o instance.Name \o "/" \o ExpectedAddr(instance)

\* The entries Discover hands back for a name when the store answers.
Found(serviceName) == DiscoverReturn(store, serviceName, FALSE).instances

\* Discover of the instance's name returns its address.
Discoverable(instance) ==
    \E j \in DOMAIN Found(instance.Name) :
        Found(instance.Name)[j].Host = ExpectedAddr(instance)

\* A Register of the instance was applied, no Deregister since.
Registered(instance) == ExpectedKey(instance) \in DOMAIN bound

\* The Register call that wrote the instance's record has returned nil.
RegisterSucceeded(instance) ==
    /\ Registered(instance)
    /\ \E c \in Callers :
          /\ calls[c].pc = "idle" /\ calls[c].err = Nil
          /\ calls[c].inst = instance
          /\ calls[c].lease = bound[ExpectedKey(instance)]

\* ... and the lease it was bound to is live.
RegisteredLive(instance) ==
    Registered(instance) /\ LeaseLive(bound[ExpectedKey(instance)])

RenewedLeases == {ka.id : ka \in keepAlives}

(***************************************************************************)
(* C1  After a successful Register, while the lease is live and no         *)
(* Deregister has occurred, the store holds exactly the record             *)
(* <prefix><name>/<host>:<port> -> <host>:<port>, and Discover of a name   *)
(* returns exactly one entry per instance so registered under that name,   *)
(* carrying that instance's <host>:<port>.                                 *)
(***************************************************************************)
C1_RegisteredIsDiscovered ==
    /\ \A i \in Instances :
          RegisteredLive(i) =>
              {r \in store : r.key = ExpectedKey(i)} =
                  {[key |-> ExpectedKey(i), value |-> ExpectedAddr(i),
                    lease |-> bound[ExpectedKey(i)]]}
    /\ \A n \in ServiceNames :
          LET live == {i \in Instances : i.Name = n /\ RegisteredLive(i)}
          IN  /\ Len(Found(n)) = Cardinality(live)
              /\ Range(Found(n)) =
                     {[Name |-> n, Host |-> ExpectedAddr(i), Port |-> 0] : i \in live}

\* One registration of order-service at 10.0.0.5:50052: the single result.
C1_Witness ==
    /\ DOMAIN bound = {"/microshop/services/order-service/10.0.0.5:50052"}
    /\ Found("order-service") =
           <<[Name |-> "order-service", Host |-> "10.0.0.5:50052", Port |-> 0]>>

(***************************************************************************)
(* C2  Re-registering the same instance creates no duplicate lease: at     *)
(* most one live, still renewed lease exists for an instance.              *)
(***************************************************************************)
C2_AtMostOneLeasePerInstance ==
    \A i \in Instances :
        Cardinality({id \in RenewedLeases : LeaseLive(id) /\ leaseInst[id] = i}) <= 1

(***************************************************************************)
(* C3  After a successful Register the record stays discoverable at every  *)
(* moment while the process runs and neither Deregister nor Close is       *)
(* called, whatever happens to the context handed to Register.             *)
(***************************************************************************)
C3_DiscoverableWhileProcessRuns ==
    (proc = "running" /\ client = "open") =>
        \A i \in Instances : RegisterSucceeded(i) => Discoverable(i)

(***************************************************************************)
(* C4  Once renewal has stopped without a Deregister (crash, or Close),    *)
(* the record is discoverable exactly as long as fewer than TTL = 30       *)
(* seconds have passed since the last renewal of its lease.                *)
(***************************************************************************)
RenewalStopped == proc # "running" \/ client = "closed"

C4_GoneExactlyAfterTTL ==
    RenewalStopped =>
        \A i \in Instances :
            Registered(i) => (Discoverable(i) <=> leases[bound[ExpectedKey(i)]] < 30)

\* After Close: one record has outlived its TTL and is gone, another has
\* not and is still discovered.
C4_Witness ==
    /\ client = "closed"
    /\ \E i, j \in Instances :
          /\ Registered(i) /\ leases[bound[ExpectedKey(i)]] >= 30 /\ ~Discoverable(i)
          /\ Registered(j) /\ leases[bound[ExpectedKey(j)]] > 0
          /\ leases[bound[ExpectedKey(j)]] < 30 /\ Discoverable(j)

(***************************************************************************)
(* C5  Register calls for one key, in sequence or racing: none fails for   *)
(* being a repeat (a call fails only if the client was closed or its       *)
(* context cancelled), and the store holds exactly one record under the    *)
(* key, with value <host>:<port>, bound to the lease of the last write.    *)
(***************************************************************************)
C5_RepeatedRegisterLastWriteWins ==
    /\ \A c \in Callers :
          calls[c].err # Nil => (client = "closed" \/ cancelled # {})
    /\ \A i \in Instances :
          Registered(i) =>
              {r \in store : r.key = ExpectedKey(i)} =
                  {[key |-> ExpectedKey(i), value |-> ExpectedAddr(i),
                    lease |-> bound[ExpectedKey(i)]]}

\* Two racing calls for the order instance have both returned nil; the one
\* granted the first lease wrote last, and the record is bound to its lease.
C5_Witness ==
    /\ \A c \in Callers : calls[c].pc = "idle" /\ calls[c].err = Nil
    /\ DOMAIN leases = {1, 2}
    /\ leaseInst[1] = OrderInstance /\ leaseInst[2] = OrderInstance
    /\ tasks = {1, 2}
    /\ store = {[key |-> "/microshop/services/order-service/10.0.0.5:50052",
                 value |-> "10.0.0.5:50052", lease |-> 1]}

(***************************************************************************)
(* C6  Discover returns an error exactly when the store query fails; when  *)
(* the store answers and holds no record under the service's prefix the    *)
(* result is empty with no error, so the two cases can be told apart.      *)
(***************************************************************************)
C6_DiscoverErrorIffQueryFails ==
    \A n \in ServiceNames :
        /\ DiscoverReturn(store, n, TRUE).err # Nil
        /\ DiscoverReturn(store, n, FALSE).err = Nil
        /\ (\A r \in store : ~HasPrefix(r.key, "/microshop/services/" \o n \o "/"))
               => DiscoverReturn(store, n, FALSE).instances = <<>>
        /\ DiscoverReturn(store, n, TRUE) # DiscoverReturn(store, n, FALSE)

\* A store that holds a record of another service: Discover of "order"
\* hands back the empty list and no error.
C6_Witness ==
    /\ store # {}
    /\ DiscoverReturn(store, "order", FALSE) = [err |-> Nil, instances |-> <<>>]
    /\ DiscoverReturn(store, "order", TRUE).err = "failed to discover service"

(***************************************************************************)
(* C7  A successful Deregister deletes exactly the record under the        *)
(* instance's key and changes no other record and no lease; a key that has *)
(* no record gets one again only by a Register (the Put of a call, under   *)
(* the lease that call was granted), never by lease renewal.               *)
(***************************************************************************)
KeysOf(kvs) == {r.key : r \in kvs}

C7_DeregisterDeletesOnlyItsKey ==
    [][ /\ \A k \in DOMAIN bound \ DOMAIN bound' :
              /\ \E i \in Instances : k = ExpectedKey(i)
              /\ store' = {r \in store : r.key # k}
              /\ leases' = leases
              /\ keepAlives' = keepAlives
        /\ \A r \in store' :
              r.key \notin KeysOf(store) =>
                  \E c \in Callers :
                      /\ calls[c].pc = "put" /\ calls'[c].pc = "keepalive"
                      /\ r.key = ExpectedKey(calls[c].inst)
                      /\ r.lease = calls[c].lease
      ]_vars

\* The order instance was deregistered while its lease is still renewed,
\* and the record of another instance is still in the store.
C7_Witness ==
    /\ \E id \in RenewedLeases : LeaseLive(id) /\ leaseInst[id] = OrderInstance
    /\ ~Registered(OrderInstance)
    /\ ~Discoverable(OrderInstance)
    /\ \E j \in Instances : j # OrderInstance /\ RegisteredLive(j) /\ Discoverable(j)

(***************************************************************************)
(* C8  On every path by which the order service ends without crashing      *)
(* after a successful registration, Deregister is issued before the        *)
(* process exits.                                                          *)
(***************************************************************************)
C8_DeregisterBeforeExit ==
    (mainPc = "exited" /\ hist.registered) => hist.deregIssued

(***************************************************************************)
(* C9  Once Close has returned, no renewal goroutine started by a Register *)
(* call is still running and no keep-alive is sent any more.               *)
(***************************************************************************)
C9_NoRenewalTaskAfterClose ==
    client = "closed" => (tasks = {} /\ keepAlives = {})

(***************************************************************************)
(* C10  The order service starts its RPC server only after Register has    *)
(* returned nil; when the registry client cannot be built or Register      *)
(* fails, the service terminates and never starts the server.              *)
(***************************************************************************)
C10_NoServerWithoutRegistration ==
    /\ (hist.serverStarted \/ server # "off") =>
          (hist.registered /\ ~hist.regFailed /\ ~hist.sdFailed)
    /\ (hist.sdFailed \/ hist.regFailed) =>
          (mainPc \in {"fatal", "exited", "crashed"} /\ ~hist.serverStarted)

\* Register failed, the process has exited, the server was never started.
C10_Witness ==
    /\ hist.regFailed
    /\ mainPc = "exited"
    /\ proc = "exited"
    /\ server = "off"

(***************************************************************************)
(* C11  For each service the manager dials the first address Discover      *)
(* returned when it has a registry client and Discover succeeded with a    *)
(* non-empty result, and the static default in every other case; a         *)
(* registry failure alone never makes Connect fail.                        *)
(***************************************************************************)
ServiceAt == <<"user", "order">>

Contains(s, sub) ==
    \E i \in 1..(Len(s) - Len(sub) + 1) : SubSeq(s, i, i + Len(sub) - 1) = sub

DiscoveredFirst(lookup) ==
    lookup.called /\ lookup.err = Nil /\ lookup.instances # <<>>

C11_DialsDiscoveredElseDefault ==
    /\ \A j \in DOMAIN connectRet.did :
          LET lookup == connectRet.found[j]
          IN  /\ DiscoveredFirst(lookup) =>
                    connectRet.did[j] = lookup.instances[1].Host
              /\ ~DiscoveredFirst(lookup) =>
                    connectRet.did[j] =
                        (IF ServiceAt[j] = "user" THEN "localhost:50051"
                         ELSE "localhost:50052")
              /\ (client = "none") => ~lookup.called
    /\ connectRet.err # Nil =>
          /\ Contains(connectRet.err, "context deadline exceeded")
          /\ ~Contains(connectRet.err, "failed to discover service")

\* Discover failed for the user service and found the order service: the
\* default and the discovered address were dialed and Connect returned nil.
C11_Witness ==
    /\ connectRet.pc = "idle"
    /\ connectRet.err = Nil
    /\ Len(connectRet.did) = 2
    /\ connectRet.found[1].called /\ connectRet.found[1].err # Nil
    /\ connectRet.did[1] = "localhost:50051"
    /\ connectRet.did[2] = "10.0.0.5:50052"
    /\ clients = [user |-> "localhost:50051", order |-> "10.0.0.5:50052"]

(***************************************************************************)
(* C12  The gateway calls Connect, and Connect succeeds, before any        *)
(* request handler uses the user or order RPC client: no handler runs with *)
(* a nil client, and no request is served unless Connect has succeeded.    *)
(***************************************************************************)
C12_ConnectedBeforeServing ==
    /\ gwHist.handlerRan => gwHist.connected
    /\ ~gwHist.nilClientUsed

(***************************************************************************)
(* C13  Connect connects the user service, then the order service; at the  *)
(* first service that cannot be reached it returns an error that wraps the *)
(* cause and names that service, and tries no further service; it returns  *)
(* nil only when both connections and both clients are established.        *)
(***************************************************************************)
C13_ConnectFailsFast ==
    /\ (connectRet.pc = "idle" /\ connectRet.err # Nil) =>
          \/ /\ Len(connectRet.did) = 1
             /\ connectRet.err =
                    "failed to connect to user service: context deadline exceeded"
          \/ /\ Len(connectRet.did) = 2
             /\ connectRet.err =
                    "failed to connect to order service: context deadline exceeded"
             /\ conns.user.target = connectRet.did[1]
             /\ clients.user = connectRet.did[1]
    /\ (connectRet.pc = "idle" /\ connectRet.err = Nil /\ connectRet.did # <<>>) =>
          /\ Len(connectRet.did) = 2
          /\ \A j \in 1..2 :
                /\ conns[ServiceAt[j]].target = connectRet.did[j]
                /\ clients[ServiceAt[j]] = connectRet.did[j]
    /\ (connectRet.pc = "idle" /\ connectRet.err = Nil /\ connectRet.did # <<>>
           /\ closeRet = NoReturn) =>
          (conns.user.open /\ conns.order.open)

\* The user service could not be reached: only its target was dialed, and
\* the order service has neither connection nor client.
C13_Witness ==
    /\ connectRet.pc = "idle"
    /\ connectRet.err = "failed to connect to user service: context deadline exceeded"
    /\ connectRet.did = <<"10.0.0.7:50051">>
    /\ conns.order = NoConn
    /\ clients.order = "nil"

(***************************************************************************)
(* C14  Close closes every established connection even when an earlier     *)
(* close fails, and returns an error exactly when a close failed, that     *)
(* error naming every failure.                                             *)
(***************************************************************************)
ClosedBy(call) == {call.did[j] : j \in DOMAIN call.did}

C14_CloseReportsEveryFailure ==
    [][ closeRet' # closeRet =>
          LET svc == IF closeRet.pc = "idle" THEN "user" ELSE "order"
              reported == svc \o " connection close error: grpc: the client connection is closing"
          IN  /\ conns[svc] # NoConn =>
                    /\ svc \in ClosedBy(closeRet')
                    /\ ~conns'[svc].open
                    /\ ~conns[svc].open =>
                           \E j \in DOMAIN closeRet'.failed : closeRet'.failed[j] = reported
              /\ conns[svc] = NoConn => svc \notin ClosedBy(closeRet')
              /\ \A j \in DOMAIN closeRet.failed :
                    closeRet.pc = "order" => closeRet'.failed[j] = closeRet.failed[j]
              /\ closeRet'.pc = "idle" =>
                    /\ (closeRet'.err # Nil) <=> (closeRet'.failed # <<>>)
                    /\ \A j \in DOMAIN closeRet'.failed :
                          Contains(closeRet'.err, closeRet'.failed[j])
      ]_vars

\* Both closes failed; both were attempted and both are reported.
C14_Witness ==
    /\ closeRet.pc = "idle"
    /\ closeRet.did = <<"user", "order">>
    /\ Len(closeRet.failed) = 2
    /\ Contains(closeRet.err, "user connection close error")
    /\ Contains(closeRet.err, "order connection close error")

(***************************************************************************)
(* C15  Each actor processes messages strictly sequentially: at no time    *)
(* are two Receive invocations of one actor in progress, however many      *)
(* callers send to it meanwhile.                                           *)
(***************************************************************************)
C15_OneReceiveAtATime ==
    \A a \in Actors : Cardinality(running[a]) <= 1

\* The order actor is inside Receive for a caller's CreateOrder while a
\* request of the other caller waits in its mailbox.
C15_Witness ==
    \E env \in running["order-actor"] :
        /\ env.msg.type = "CreateOrder"
        /\ mailbox["order-actor"].user # << >>
        /\ mailbox["order-actor"].user[1].id[1] # env.id[1]

(***************************************************************************)
(* C16  Per-mailbox FIFO: the requests of one sender are processed in the  *)
(* order it sent them, also when requests of other senders come between.   *)
(***************************************************************************)
C16_SenderOrderKept ==
    \A a \in Actors :
        \A i, j \in DOMAIN processed[a] :
            (i < j /\ processed[a][i][1] = processed[a][j][1]) =>
                processed[a][i][2] < processed[a][j][2]

\* Two requests of one sender were processed in their order with a request
\* of the other sender between them.
C16_Witness ==
    processed["order-actor"] = << <<"s1", 1>>, <<"s2", 1>>, <<"s1", 2>> >>

(***************************************************************************)
(* C17  Each RequestFuture call resolves exactly once: with the actor's    *)
(* reply when it arrives in time, else with a timeout that differs from    *)
(* every reply; a reply after the timeout is discarded and changes no      *)
(* resolved outcome.                                                       *)
(***************************************************************************)
C17_FutureResolvesOnce ==
    [][ \A id \in DOMAIN futures' :
          /\ (id \in DOMAIN futures /\ futures[id].state # "pending") =>
                futures'[id] = futures[id]
          /\ futures'[id].state = "replied" =>
                (responds'[id] # << >> /\ futures'[id].result = responds'[id][1])
          /\ futures'[id].state = "timeout" =>
                (futures'[id].result = [type |-> "none"]
                 /\ \A other \in DOMAIN responds' :
                        \A k \in DOMAIN responds'[other] :
                            responds'[other][k] # futures'[id].result)
          /\ id \in discarded' =>
                (futures'[id].state = "timeout" /\ responds'[id] # << >>)
          /\ (futures'[id].state = "timeout" /\ responds'[id] # << >>) =>
                id \in discarded'
      ]_vars

\* One call timed out and its late reply was discarded; another call got
\* its reply.
C17_Witness ==
    \E id, other \in DOMAIN futures :
        /\ futures[id].state = "timeout"
        /\ id \in discarded
        /\ responds[id] # << >>
        /\ futures[other].state = "replied"
        /\ futures[other].result = responds[other][1]

(***************************************************************************)
(* C18  Every request delivered to an actor through RequestFuture is       *)
(* answered exactly once: Receive calls Respond one time, never zero times *)
(* and never more than once.                                               *)
(***************************************************************************)
Ended(a) ==
    {processed[a][j] : j \in DOMAIN processed[a]} \ {env.id : env \in running[a]}

C18_RespondExactlyOnce ==
    \A a \in Actors : \A id \in Ended(a) : Len(responds[id]) = 1

(***************************************************************************)
(* C19  Started is handed to each spawned actor exactly once, right after  *)
(* spawn and before any user message, so OrderClusterActor has made its    *)
(* orders map before it processes a create or a lookup.                    *)
(***************************************************************************)
C19_StartedOnceAndFirst ==
    /\ \A a \in Actors :
          /\ startedCount[a] <= 1
          /\ a \notin spawned => startedCount[a] = 0
          /\ a \in spawned =>
                (startedCount[a] = 0 <=> mailbox[a].sys # << >>)
          /\ (processed[a] # << >> \/ running[a] # {}) => startedCount[a] = 1
    /\ processed["order-cluster-actor"] # << >> => orders.made

\* The cluster actor got Started once and has stored an order since.
C19_Witness ==
    /\ startedCount["order-cluster-actor"] = 1
    /\ processed["order-cluster-actor"] # << >>
    /\ orders.made
    /\ DOMAIN orders.m # {}

(***************************************************************************)
(* C20  OrderClusterActor after Started: a create replies a non-empty      *)
(* OrderID with Status "pending"; a lookup replies "pending" for every id  *)
(* an earlier create returned and {id, "not found"} for any other id; a    *)
(* lookup never fails and never changes the store.                         *)
(***************************************************************************)
EndingNow == running["order-cluster-actor"] \ running'["order-cluster-actor"]

C20_ClusterCreateAndLookup ==
    [][ \A env \in EndingNow :
          /\ env.msg.type \in {"CreateOrderCluster", "GetOrderStatusCluster"} =>
                Len(responds'[env.id]) = 1
          /\ env.msg.type = "CreateOrderCluster" =>
                LET r == responds'[env.id][1]
                IN  /\ r.OrderID # ""
                    /\ r.Status = "pending"
                    /\ DOMAIN orders'.m = DOMAIN orders.m \cup {r.OrderID}
                    /\ \A id \in DOMAIN orders'.m : orders'.m[id].Status = "pending"
          /\ env.msg.type = "GetOrderStatusCluster" =>
                /\ orders' = orders
                /\ responds'[env.id][1] =
                      [type |-> "OrderStatus", OrderID |-> env.msg.arg,
                       Status |-> IF env.msg.arg \in DOMAIN orders.m
                                  THEN "pending" ELSE "not found"]
      ]_vars

\* After a create that returned ORD-1, a lookup of ORD-1 replied "pending"
\* and a lookup of "bogus" replied "not found".
C20_Witness ==
    /\ "ORD-1" \in DOMAIN orders.m
    /\ \E id \in DOMAIN responds :
          responds[id] = << [type |-> "OrderStatus", OrderID |-> "ORD-1",
                             Status |-> "pending"] >>
    /\ \E id \in DOMAIN responds :
          responds[id] = << [type |-> "OrderStatus", OrderID |-> "bogus",
                             Status |-> "not found"] >>

(***************************************************************************)
(* C21  Every CreateOrderCluster generates a fresh key: no create          *)
(* overwrites a stored record, so the number of stored records equals the  *)
(* number of CreateOrderCluster messages processed.                        *)
(***************************************************************************)
CreatesProcessed ==
    {id \in DOMAIN responds :
        /\ responds[id] # << >>
        /\ responds[id][1].type = "OrderResponse"
        /\ responds[id][1].Status = "pending"}

C21_FreshKeyPerCreate ==
    Cardinality(DOMAIN orders.m) = Cardinality(CreatesProcessed)

(***************************************************************************)
(* C22  SpawnNamed under a name in use by a live actor fails with an error *)
(* and creates no actor: the first actor keeps its identity, mailbox and   *)
(* state and stays addressable.                                            *)
(***************************************************************************)
C22_DuplicateSpawnFails ==
    [][ /\ (spawnErr' = ErrNameExists /\ spawnErr # ErrNameExists) =>
              /\ Live # {}
              /\ UNCHANGED <<spawned, mailbox, running, orders, life, signals,
                             futures, processed>>
        /\ \A a \in Live :
              /\ a \in spawned'
              /\ life'[a] = "starting" => life[a] = "starting"
              /\ \A k \in DOMAIN mailbox[a].user :
                    \/ \E j \in DOMAIN mailbox'[a].user :
                          mailbox'[a].user[j] = mailbox[a].user[k]
                    \/ mailbox[a].user[k] \in running'[a]
        /\ \A a \in spawned' :
              startedCount'[a]
                + Len(SelectSeq(mailbox'[a].sys, LAMBDA m : m = Started)) = 1
      ]_vars

\* A second SpawnNamed under the name failed; the actor runs, has processed a
\* request and holds another one in its mailbox.
C22_Witness ==
    /\ spawnErr = ErrNameExists
    /\ \E a \in Live :
          /\ life[a] = "running"
          /\ processed[a] # << >>
          /\ mailbox[a].user # << >>

(***************************************************************************)
(* C23  A RequestFuture timeout ends the caller's wait only: the request   *)
(* stays in the mailbox and is still processed, so a CreateOrderCluster    *)
(* whose caller has timed out still adds its record to the store.          *)
(***************************************************************************)
C23_TimeoutDoesNotRetract ==
    [][ /\ \A id \in DOMAIN futures :
              (futures[id].state = "pending" /\ futures'[id].state = "timeout") =>
                  UNCHANGED <<mailbox, running, orders, processed>>
        /\ \A id \in DOMAIN futures' :
              futures'[id].state = "timeout" =>
                  \E a \in Actors :
                      \/ \E k \in DOMAIN mailbox'[a].user : mailbox'[a].user[k].id = id
                      \/ \E k \in DOMAIN processed'[a] : processed'[a][k] = id
        /\ \A id \in discarded' :
              (responds'[id][1].type = "OrderResponse"
                 /\ responds'[id][1].Status = "pending") =>
                  responds'[id][1].OrderID \in DOMAIN orders'.m
      ]_vars

\* The caller of a CreateOrderCluster timed out, and the actor stored the
\* order and replied afterwards.
C23_Witness ==
    \E id \in discarded :
        /\ futures[id].state = "timeout"
        /\ responds[id][1].type = "OrderResponse"
        /\ responds[id][1].Status = "pending"
        /\ responds[id][1].OrderID \in DOMAIN orders.m

(***************************************************************************)
(* C24  In shutdown Stopping and Stopped are delivered once each, Stopping *)
(* first, after any Receive in progress has ended; no user message is      *)
(* delivered once the stop request is queued; the lifecycle state moves    *)
(* forward only and never leaves Stopped.                                  *)
(***************************************************************************)
LifeRank(state) ==
    CASE state = "none" -> 0
      [] state = "starting" -> 1
      [] state = "running" -> 2
      [] state = "stopping" -> 3
      [] state = "stopped" -> 4

LifeSignals == <<"Started", "Stopping", "Stopped">>

C24_ShutdownSignalsInOrder ==
    [][ \A a \in Actors :
          /\ Len(signals'[a]) <= 3
          /\ signals'[a] = SubSeq(LifeSignals, 1, Len(signals'[a]))
          /\ life'[a] = "stopping" => signals'[a] = SubSeq(LifeSignals, 1, 2)
          /\ life'[a] = "stopped" => signals'[a] = LifeSignals
          /\ life'[a] \in {"stopping", "stopped"} => running'[a] = {}
          /\ Len(signals'[a]) > Len(signals[a]) => running[a] = {}
          /\ LifeRank(life'[a]) >= LifeRank(life[a])
          /\ (\/ life[a] \in {"stopping", "stopped"}
              \/ \E k \in DOMAIN mailbox[a].sys : mailbox[a].sys[k] = StopSignal) =>
                  processed'[a] = processed[a]
      ]_vars

\* An actor that processed a request was stopped while another request was
\* queued: it got the three signals in order and the request stays unhandled.
C24_Witness ==
    \E a \in Actors :
        /\ life[a] = "stopped"
        /\ signals[a] = LifeSignals
        /\ processed[a] # << >>
        /\ mailbox[a].user # << >>

(***************************************************************************)
(* C25  Every Send or RequestFuture addressed to an actor that has reached *)
(* Stopped fails fast with a dead-letter condition of its own: the message *)
(* is recorded as a dead letter (and the future of a request fails with    *)
(* that condition); it is never processed by any actor and never dropped   *)
(* without notice.                                                         *)
(***************************************************************************)
Queued(a, boxes) == {boxes[a].user[k].id : k \in DOMAIN boxes[a].user}

C25_PostStopSendIsDeadLetter ==
    [][ /\ \A a \in Actors :
              life[a] = "stopped" =>
                  /\ mailbox'[a].user = mailbox[a].user
                  /\ processed'[a] = processed[a]
                  /\ running'[a] = {}
        /\ \A id \in DOMAIN responds' \ DOMAIN responds :
              \/ /\ \E a \in Actors : id \in Queued(a, mailbox') /\ life[a] # "stopped"
                 /\ id \notin deadLetters'
                 /\ id \in DOMAIN futures' => futures'[id].state = "pending"
              \/ /\ id \in deadLetters'
                 /\ id \in DOMAIN futures' => futures'[id].state = "deadletter"
        /\ \A id \in DOMAIN futures' :
              futures'[id].state = "deadletter" <=> id \in deadLetters'
        /\ \A id \in deadLetters' :
              /\ responds'[id] = << >>
              /\ \A a \in Actors :
                    /\ \A k \in DOMAIN processed'[a] : processed'[a][k] # id
                    /\ id \notin Queued(a, mailbox')
      ]_vars

\* After Stopped a Send and a RequestFuture both ended as dead letters, the
\* Send without a future, while a request sent before got its reply.
C25_Witness ==
    \E sent \in deadLetters, id \in deadLetters, other \in DOMAIN futures :
        /\ sent \notin DOMAIN futures
        /\ id \in DOMAIN futures
        /\ futures[id].state = "deadletter"
        /\ futures[other].state = "replied"
        /\ \E a \in Actors : life[a] = "stopped"

(***************************************************************************)
(* C26  Register is all-or-nothing on failure: when Register returns an    *)
(* error, no lease and no record created by that call remains in the       *)
(* store.                                                                  *)
(***************************************************************************)
C26_RegisterAllOrNothing ==
    [][ \A c \in Callers :
          (calls[c].pc # "idle" /\ calls'[c].pc = "idle" /\ calls'[c].err # Nil) =>
              /\ calls[c].lease \notin DOMAIN leases'
              /\ \A r \in store' : r.lease # calls[c].lease
      ]_vars

(***************************************************************************)
(* C27  Whenever the order service's record is discoverable, its RPC       *)
(* server is listening on the registered address: the record is never      *)
(* visible before the server listens, nor after it failed to start or      *)
(* stopped with an error.                                                  *)
(***************************************************************************)
C27_DiscoverableOnlyWhileListening ==
    Discoverable(OrderInstance) => server = "listening"

(***************************************************************************)
(* C29  Discover(name) returns only records registered under exactly that  *)
(* service name, also when the name is a string prefix of another name:    *)
(* Discover("order") never returns an instance of "order-service".         *)
(***************************************************************************)
StoredUnder(serviceName) ==
    {i \in Instances : i.Name = serviceName /\ ExpectedKey(i) \in KeysOf(store)}

C29_DiscoverExactName ==
    \A serviceName \in ServiceNames :
        LET resp == EtcdGetPrefix(store, DiscoverKey(serviceName))
        IN  /\ \A j \in DOMAIN resp :
                  \E i \in StoredUnder(serviceName) : resp[j].key = ExpectedKey(i)
            /\ Len(Found(serviceName)) = Cardinality(StoredUnder(serviceName))

\* Only instances of order-service are stored: Discover("order") returns
\* nothing, Discover("order-service") returns them.
C29_Witness ==
    /\ StoredUnder("order-service") # {}
    /\ StoredUnder("order") = {}
    /\ Found("order") = << >>
    /\ Len(Found("order-service")) = Cardinality(StoredUnder("order-service"))

(***************************************************************************)
(* C28  User cache coherence: once an UpdateUser or DeleteUser of an id    *)
(* has completed and no later write to the id occurs, every GetUser of the *)
(* id that starts afterwards reflects that write and never returns the     *)
(* values from before it, whatever GetUser calls ran beside the write.     *)
(* Checked of the behaviours in which every Redis command succeeds; a      *)
(* GetUser whose query failed returns an error and no values at all.       *)
(***************************************************************************)
Current(id) == IF userDb[id] = NoRow THEN NotFound ELSE userDb[id]

C28_GetUserSeesCompletedWrite ==
    \A g \in Getters :
        (/\ ~redisFailed
         /\ getCalls[g].pc = "done"
         /\ getCalls[g].quiet
         /\ getCalls[g].since >= 1
         /\ getCalls[g].since = writesBegun
         /\ getCalls[g].ret # GetFailed) =>
            getCalls[g].ret = Current(getCalls[g].id)

====
